---- MODULE Spec2Model ----
(***************************************************************************)
(* A model of the function queue of github.com/go-on/queue: the build      *)
(* surface (Add, WithName, OnError, Tee, Feed, LogErrorsTo, LogDebugTo),   *)
(* the runners (Run, Fallback) with the invoker pipeFn and the tee/feed    *)
(* composer runTeesAndFeed, and the validator (Check, validateFn,          *)
(* validateArgs) with CheckAndRun and CheckAndFallback.                    *)
(*                                                                         *)
(* Positions are zero-based as in the Go code; TLA+ sequences are          *)
(* one-based, so the call at position i is functions[i + 1].               *)
(***************************************************************************)
EXTENDS Integers, Sequences, FiniteSets, TLC

\* ------------------------------------------------------------------ bounds
\* longest main queue that is built
MaxLen == 3
\* longest main queue that is built with tees and feeds
MaxTeeLen == 2
\* most tees and feeds registered on the main queue
MaxAttach == 1

\* most tees and feeds registered where several are at one position
MaxBranch == 2
\* longest queue that is built to be run as tee of the main queue
MaxSubLen == 1
\* most parameters of a function type validateArgs is tried with
MaxIns == 2
\* most argument types validateArgs is tried with
MaxArgs == 3

\* the main queue and the queue used as feed target / sub queue
Main == "main"
Sub == "sub"
QIds == {Main, Sub}

\* ------------------------------------------------------------------ values
\* a Go value: its dynamic type, a code for its content and, for a *Queue,
\* the queue it points to
IntVal(n) == [ty |-> "int", v |-> n, q |-> ""]
StrVal(n) == [ty |-> "string", v |-> n, q |-> ""]
\* an error typed return value; v = 0 is the nil error
ErrVal(n) == [ty |-> "error", v |-> n, q |-> ""]
\* a *Queue given as argument of a RUN / FALLBACK tee
QueueVal(q) == [ty |-> "*Queue", v |-> 0, q |-> q]
\* the pseudo parameter PIPE
PIPE == [ty |-> "pipe", v |-> 0, q |-> ""]

I1 == IntVal(1)
I2 == IntVal(2)
S1 == StrVal(1)

\* ------------------------------------------------------------------ errors
\* error values as seen by the error handler and the caller
NIL ==
    [kind |-> "nil", id |-> 0, Position |-> 0, Name |-> "", Type |-> "",
     Params |-> <<>>, wrapped |-> FALSE]

\* the ordinary error a function returned as last return value
BusinessError(n) == [NIL EXCEPT !.kind = "business", !.id = n]

\* a CallPanic that does not take over the name of the call
CallPanic_NoName(i, c, all) ==
    [NIL EXCEPT !.kind = "CallPanic", !.Position = i,
                !.Type = c.function.sig, !.Params = all]

\* the CallPanic built by the deferred recover of pipeFn
CallPanic(i, c, all) ==
    [NIL EXCEPT !.kind = "CallPanic", !.Position = i, !.Name = c.name,
                !.Type = c.function.sig, !.Params = all]

\* the InvalidFunc and InvalidArgument built by validateFn
InvalidFunc(i, c) ==
    [NIL EXCEPT !.kind = "InvalidFunc", !.Position = i, !.Name = c.name,
                !.Type = c.function.sig]
InvalidArgument(i, c) ==
    [NIL EXCEPT !.kind = "InvalidArgument", !.Position = i, !.Name = c.name,
                !.Type = c.function.sig]

\* an error a custom handler made out of the one it was given
Wrap(e) == [e EXCEPT !.wrapped = TRUE]

\* ----------------------------------------------------------------- handlers
NoHandler == "nil"
STOP == "STOP"
IGNORE == "IGNORE"
PANIC == "PANIC"
\* a user defined ErrHandlerFunc: catches the errors functions return and
\* hands every other error back transformed
CUSTOM == "CUSTOM"
Handlers == {STOP, IGNORE, PANIC, CUSTOM}

\* an IGNORE that hands the error back
HandleError_IgnoreReturns(h, err) ==
    CASE h = PANIC -> [err |-> NIL, crash |-> TRUE]
      [] h = CUSTOM /\ err.kind = "business" -> [err |-> NIL, crash |-> FALSE]
      [] h = CUSTOM -> [err |-> Wrap(err), crash |-> FALSE]
      [] OTHER -> [err |-> err, crash |-> FALSE]

\* a PANIC that hands the error back
HandleError_PanicReturns(h, err) ==
    CASE h = IGNORE -> [err |-> NIL, crash |-> FALSE]
      [] h = CUSTOM /\ err.kind = "business" -> [err |-> NIL, crash |-> FALSE]
      [] h = CUSTOM -> [err |-> Wrap(err), crash |-> FALSE]
      [] OTHER -> [err |-> err, crash |-> FALSE]

\* ErrHandler.HandleError: the error handed back, or the panic of PANIC
HandleError(h, err) ==
    CASE h = STOP -> [err |-> err, crash |-> FALSE]
      [] h = IGNORE -> [err |-> NIL, crash |-> FALSE]
      [] h = PANIC -> [err |-> NIL, crash |-> TRUE]
      [] OTHER ->
           IF err.kind = "business"
           THEN [err |-> NIL, crash |-> FALSE]
           ELSE [err |-> Wrap(err), crash |-> FALSE]

\* ---------------------------------------------------------------- callables
\* reflect.Value of what was given to Add / Tee: its kind, its type (sig,
\* ins, variadic, outs) and what calling it does: "ret" returns ret,
\* "panic" panics, "RUN" / "FALLBACK" are (*Queue).Run / (*Queue).Fallback
Callable(sig, ins, variadic, outs, beh, ret) ==
    [kind |-> "func", sig |-> sig, ins |-> ins, variadic |-> variadic,
     outs |-> outs, beh |-> beh, ret |-> ret]

\* func() (int, error) returning 1, nil
fOk == Callable("func() (int, error)", <<>>, FALSE, <<"int", "error">>,
                "ret", <<I1, ErrVal(0)>>)
\* func(...interface{}) (string, error) returning a string and error 1
fFail == Callable("func(...interface {}) (string, error)", <<"any">>, TRUE,
                  <<"string", "error">>, "ret", <<S1, ErrVal(1)>>)
\* func(string) error returning error 2
setErr == Callable("func(string) error", <<"string">>, FALSE, <<"error">>,
                   "ret", <<ErrVal(2)>>)
\* func(...interface{}) int that panics
fPanic == Callable("func(...interface {}) int", <<"any">>, TRUE, <<"int">>,
                   "panic", <<>>)
\* func(...interface{}) (int, string) returning 2, a string
fCat == Callable("func(...interface {}) (int, string)", <<"any">>, TRUE,
                 <<"int", "string">>, "ret", <<I2, S1>>)
\* func(string) error returning nil
fSet == Callable("func(string) error", <<"string">>, FALSE, <<"error">>,
                 "ret", <<ErrVal(0)>>)
\* the int 5 given to Add in place of a function
five ==
    [kind |-> "int", sig |-> "int", ins |-> <<>>, variadic |-> FALSE,
     outs |-> <<>>, beh |-> "ret", ret |-> <<>>]
\* RUN and FALLBACK
RUN == Callable("func(*queue.Queue) error", <<"*Queue">>, FALSE,
                <<"error">>, "RUN", <<>>)
FALLBACK == Callable("func(*queue.Queue) (int, error)", <<"*Queue">>, FALSE,
                     <<"int", "error">>, "FALLBACK", <<>>)

\* the types runTeesAndFeed compares a tee's function type with
TypeOf(f) == [ins |-> f.ins, variadic |-> f.variadic, outs |-> f.outs]
runTy == [ins |-> <<"*Queue">>, variadic |-> FALSE, outs |-> <<"error">>]
fallbackTy ==
    [ins |-> <<"*Queue">>, variadic |-> FALSE, outs |-> <<"int", "error">>]

\* a call descriptor
call(function, arguments) ==
    [function |-> function, arguments |-> arguments, name |-> ""]

\* the calls Add is tried with
MainCalls ==
    { call(fOk, <<>>), call(fFail, <<PIPE>>), call(fPanic, <<I1, PIPE>>),
      call(fCat, <<PIPE, I2, PIPE>>) }
\* the function calls Tee is tried with
TeeCalls ==
    { call(fFail, <<PIPE>>), call(fPanic, <<PIPE>>), call(fCat, <<PIPE>>) }
\* the calls Add and Tee are tried with where steps are named
PanicCalls ==
    { call(fOk, <<>>), call(fFail, <<PIPE>>), call(fPanic, <<I1, PIPE>>) }
PanicTees == { call(fPanic, <<PIPE>>) }
\* the calls Add and Tee are tried with where queues are validated
CheckCalls ==
    { call(fOk, <<>>), call(five, <<>>), call(fSet, <<PIPE>>),
      call(fFail, <<PIPE>>) }
CheckTees == { call(fCat, <<PIPE>>) }
\* the types function types and argument lists are made of
Types == {"int", "string", "any"}
\* the calls Add and Tee and the queue Feed are tried with where several
\* tees and feeds are registered at one position
BranchCalls == { call(fOk, <<>>), call(fFail, <<PIPE>>) }
BranchTees == { call(fFail, <<PIPE>>), call(fCat, <<I2, PIPE>>) }
BranchFeeds == {Sub}
\* the queues Feed is tried with
FeedTargets == {Main}
\* the calls Add and Tee are tried with where several function tees hang on
\* one position
PosCalls == { call(fOk, <<>>), call(fFail, <<PIPE>>) }
PosTees ==
    { call(fCat, <<PIPE>>), call(fFail, <<PIPE>>), call(fPanic, <<PIPE>>) }
\* the calls Add is tried with on a queue that has a handler of its own and
\* is run as tee, and the handlers OnError is tried with there
OwnCalls ==
    { call(fCat, <<PIPE>>), call(fFail, <<PIPE>>), call(setErr, <<S1>>) }
OwnHandlers == {STOP, IGNORE}
\* the calls Add is tried with on the main queue and on the queue it tees,
\* and the tees Tee(RUN, sub) and Tee(FALLBACK, sub)
SubMainCalls == { call(fOk, <<>>), call(fFail, <<PIPE>>) }
SubCalls == { call(fCat, <<PIPE>>), call(fFail, <<PIPE>>) }
SubTees ==
    { call(RUN, <<QueueVal(Sub)>>), call(FALLBACK, <<QueueVal(Sub)>>) }
\* the calls Add is tried with where log targets are set
LogCalls == { call(fOk, <<>>), call(fFail, <<PIPE>>), call(fPanic, <<PIPE>>) }
\* the calls Add is tried with where a queue that was fed is validated
FedCalls ==
    { call(fOk, <<>>), call(fFail, <<PIPE>>), call(fSet, <<PIPE>>),
      call(fCat, <<PIPE, I2>>) }
\* the names WithName is tried with
Names == {"n1"}

\* ------------------------------------------------------------------- queues
\* the io.Writers given as log target; NoTarget is the nil io.Writer
NoTarget == "nil"
W1 == "w1"
W2 == "w2"
LogTargets == {W1, W2}

\* New(): no functions, no handler, no log target, empty maps, no start
\* values
New ==
    [functions |-> <<>>, errHandler |-> NoHandler, logTarget |-> NoTarget,
     logverbose |-> FALSE, feed |-> <<>>, tees |-> <<>>,
     startValues |-> <<>>]

\* the Go maps feed and tees: a function from the positions that have an
\* entry; reading a missing key gives the empty list
MapGet(m, k) == IF k \in DOMAIN m THEN m[k] ELSE <<>>
MapAppend(m, k, xs) ==
    [x \in DOMAIN m \cup {k} |-> IF x = k THEN MapGet(m, k) \o xs ELSE m[x]]

\* ------------------------------------------------------ what a run leaves
\* the record of one thing a run did: a main call ("call"), a tee call
\* ("tee"), the start and end of a tee'd queue ("sub", "subend"), a write of
\* a feed target's start values ("feed"), a call of the error handler
\* ("handle") or a line written to the log target ("log")
NoEv ==
    [ev |-> "", q |-> "", at |-> 0, pos |-> 0, tgt |-> "", name |-> "",
     args |-> <<>>, vals |-> <<>>, err |-> NIL, out |-> NIL, lvl |-> "",
     types |-> <<>>, fty |-> TypeOf(five), msg |-> ""]
\* what a "handle" record holds as out when the handler panicked
Panicked == [NIL EXCEPT !.kind = "panic"]

\* logPanic, logError, logDebug: a line, if a log target is set (and for
\* logDebug if it is verbose)
logPanic(qu, qid, i, name) ==
    IF qu.logTarget # NoTarget
    THEN <<[NoEv EXCEPT !.ev = "log", !.q = qid, !.lvl = "PANIC", !.pos = i,
                        !.tgt = qu.logTarget, !.name = name]>>
    ELSE <<>>
logError(qu, qid, i, name, err) ==
    IF qu.logTarget # NoTarget
    THEN <<[NoEv EXCEPT !.ev = "log", !.q = qid, !.lvl = "ERROR", !.pos = i,
                        !.tgt = qu.logTarget, !.name = name, !.err = err]>>
    ELSE <<>>
logDebug(qu, qid, i, name, args, vals) ==
    IF qu.logTarget # NoTarget /\ qu.logverbose
    THEN <<[NoEv EXCEPT !.ev = "log", !.q = qid, !.lvl = "DEBUG", !.pos = i,
                        !.tgt = qu.logTarget, !.name = name, !.args = args,
                        !.vals = vals]>>
    ELSE <<>>
\* the "[E]" / "[ET]" line Run and Fallback write after the handler returned
logHandled(qu, qid, i, err, out) ==
    IF qu.logTarget # NoTarget /\ qu.logverbose
    THEN <<[NoEv EXCEPT !.ev = "log", !.q = qid, !.lvl = "DEBUG", !.pos = i,
                        !.tgt = qu.logTarget, !.name = "[E]", !.err = err,
                        !.out = out]>>
    ELSE <<>>

\* ------------------------------------------------------------------ invoker
RECURSIVE Expand(_, _)
\* the piped values put in front of the literal arguments
Expand_Prepend(arguments, piped) ==
    (IF \E k \in 1..Len(arguments) : arguments[k] = PIPE
     THEN piped ELSE <<>>)
      \o SelectSeq(arguments, LAMBDA a : a # PIPE)

\* the argument list: every PIPE replaced by the piped values
Expand(arguments, piped) ==
    IF arguments = <<>> THEN <<>>
    ELSE (IF Head(arguments) = PIPE THEN piped ELSE <<Head(arguments)>>)
           \o Expand(Tail(arguments), piped)

\* reflect: is a value of type is assignable to a parameter of type should
AssignableTo(is, should) == is = should \/ should = "any"

\* reflect.Value.Call panics when the value is no function, when the number
\* of arguments does not fit, when an argument is not assignable to its
\* parameter, and when the function itself panics
callPanics(f, in) ==
    \/ f.kind # "func"
    \/ ~f.variadic /\ Len(in) # Len(f.ins)
    \/ f.variadic /\ Len(in) < Len(f.ins) - 1
    \/ \E k \in 1..Len(in) :
          LET should == IF f.variadic /\ k >= Len(f.ins)
                        THEN f.ins[Len(f.ins)] ELSE f.ins[k]
          IN ~AssignableTo(in[k].ty, should)
    \/ f.beh = "panic"

\* a pipeFn that takes the error of a function for logged, and done with,
\* when the queue is verbose
pipeFn_VerboseSwallows(qu, qid, c, i, piped) ==
    LET all == Expand(c.arguments, piped)
        f == c.function
        num == Len(f.outs)
    IN IF callPanics(f, all)
       THEN [returns |-> <<>>, err |-> CallPanic(i, c, all), all |-> all,
             logs |-> logPanic(qu, qid, i, c.name)]
       ELSE IF num = 0
       THEN [returns |-> f.ret, err |-> NIL, all |-> all, logs |-> <<>>]
       ELSE IF f.outs[num] = "error"
       THEN [returns |-> SubSeq(f.ret, 1, num - 1),
             err |-> IF f.ret[num].v # 0 /\ ~qu.logverbose
                     THEN BusinessError(f.ret[num].v) ELSE NIL,
             all |-> all,
             logs |-> logDebug(qu, qid, i, c.name, all, f.ret)]
       ELSE [returns |-> f.ret, err |-> NIL, all |-> all,
             logs |-> logDebug(qu, qid, i, c.name, all, f.ret)]

\* pipeFn: calls c as position i with the piped values; gives the return
\* values without a trailing error, that error, the arguments used and the
\* log lines written
pipeFn(qu, qid, c, i, piped) ==
    LET all == Expand(c.arguments, piped)
        f == c.function
        num == Len(f.outs)
    IN IF callPanics(f, all)
       THEN [returns |-> <<>>, err |-> CallPanic(i, c, all), all |-> all,
             logs |-> logPanic(qu, qid, i, c.name)]
       ELSE IF num = 0
       THEN [returns |-> f.ret, err |-> NIL, all |-> all, logs |-> <<>>]
       ELSE LET dbg == logDebug(qu, qid, i, c.name, all, f.ret)
            IN IF f.outs[num] = "error"
               THEN LET res == f.ret[num]
                        err == IF res.v # 0 THEN BusinessError(res.v)
                               ELSE NIL
                    IN [returns |-> SubSeq(f.ret, 1, num - 1), err |-> err,
                        all |-> all,
                        logs |-> dbg \o
                                 (IF err # NIL /\ ~qu.logverbose
                                  THEN logError(qu, qid, i, c.name, err)
                                  ELSE <<>>)]
               ELSE [returns |-> f.ret, err |-> NIL, all |-> all,
                     logs |-> dbg]

\* ------------------------------------------------------------------ runners
\* the record of the main call / tee call pipeFn made
CallEv(kind, qid, at, i, c, r) ==
    [NoEv EXCEPT !.ev = kind, !.q = qid, !.at = at, !.pos = i,
                 !.name = c.name, !.args = r.all, !.vals = r.returns,
                 !.err = r.err]
HandleEv(qid, at, err, hr) ==
    [NoEv EXCEPT !.ev = "handle", !.q = qid, !.at = at, !.pos = at,
                 !.err = err,
                 !.out = IF hr.crash THEN Panicked ELSE hr.err]
FeedEv(qid, at, target, vals) ==
    [NoEv EXCEPT !.ev = "feed", !.q = qid, !.at = at, !.pos = at,
                 !.tgt = target, !.vals = vals]
SubEv(kind, qid, at, i, target, vals, err) ==
    [NoEv EXCEPT !.ev = kind, !.q = qid, !.at = at, !.pos = i,
                 !.tgt = target, !.vals = vals, !.err = err]

\* what a runner or composer hands back: the error, whether a panic went
\* through it, the position (Fallback), the queues as they are left and the
\* records of what was done
Outcome(err, crash, pos, Q, evs) ==
    [err |-> err, crash |-> crash, pos |-> pos, Q |-> Q, evs |-> evs]

\* for _, fe := range q.feed[pos] { fe.startValues = vals }
feedAll(Q, targets, vals) ==
    [x \in DOMAIN Q |->
        IF \E k \in 1..Len(targets) : targets[k] = x
        THEN [Q[x] EXCEPT !.startValues = vals] ELSE Q[x]]
feedEvs(qid, pos, targets, vals) ==
    [k \in 1..Len(targets) |-> FeedEv(qid, pos, targets[k], vals)]

\* the handler a run uses
handlerOf(qu, default) ==
    IF qu.errHandler = NoHandler THEN default ELSE qu.errHandler

\* an outcome with the records evs put in front of its own
After(evs, o) == [o EXCEPT !.evs = evs \o o.evs]

\* what is left after the handler gave hr for err: the error, whether the
\* handler panicked, and the records of the handler call and the log line
handled(qu, qid, i, err, hr) ==
    [err |-> hr.err, crash |-> hr.crash,
     evs |-> <<HandleEv(qid, i, err, hr)>>
               \o (IF hr.crash THEN <<>>
                   ELSE logHandled(qu, qid, i, err, hr.err))]

\* a handler that is not asked about a CallPanic: the run stops with it
handle_NotForPanics(qu, qid, i, errHandler, err) ==
    IF err # NIL /\ err.kind # "CallPanic"
    THEN handled(qu, qid, i, err, HandleError(errHandler, err))
    ELSE [err |-> err, crash |-> FALSE, evs |-> <<>>]

\* a handler that is asked about every call, with or without an error
handle_Always(qu, qid, i, errHandler, err) ==
    handled(qu, qid, i, err, HandleError(errHandler, err))

\* if err != nil { err2 := errHandler.HandleError(err); q.logDebug(...);
\* err = err2 }
handle(qu, qid, i, errHandler, err) ==
    IF err # NIL
    THEN handled(qu, qid, i, err, HandleError(errHandler, err))
    ELSE [err |-> NIL, crash |-> FALSE, evs |-> <<>>]

RECURSIVE RunLoop(_, _, _, _, _)
RECURSIVE FallbackLoop(_, _, _, _, _, _)
RECURSIVE teeLoop(_, _, _, _, _)

\* Run with the default handler of Fallback
Run_DefaultIgnore(Q, q) ==
    RunLoop(Q, q, handlerOf(Q[q], IGNORE), 0, Q[q].startValues)

\* Run with a loop that starts at position 1
Run_SkipFirst(Q, q) ==
    RunLoop(Q, q, handlerOf(Q[q], STOP), 1, Q[q].startValues)

\* a Run that keeps the default handler in the queue
Run_StoresDefault(Q, q) ==
    RunLoop([Q EXCEPT ![q].errHandler = handlerOf(Q[q], STOP)], q,
            handlerOf(Q[q], STOP), 0, Q[q].startValues)

\* a Run that takes the start values away from the queue
Run_Consumes(Q, q) ==
    RunLoop([Q EXCEPT ![q].startValues = <<>>], q, handlerOf(Q[q], STOP), 0,
            Q[q].startValues)

\* Queue.Run
Run(Q, q) == RunLoop(Q, q, handlerOf(Q[q], STOP), 0, Q[q].startValues)

\* Queue.Fallback
Fallback(Q, q) ==
    FallbackLoop(Q, q, handlerOf(Q[q], IGNORE), 0, Q[q].startValues, NIL)

\* a runTeesAndFeed that leaves the feed targets alone
runTeesAndFeed_NoFeed(Q, q, pos, vals) == teeLoop(Q, q, pos, vals, 0)

\* Queue.runTeesAndFeed: the feed targets get vals, then the tees are run
runTeesAndFeed(Q, q, pos, vals) ==
    After(feedEvs(q, pos, MapGet(Q[q].feed, pos), vals),
          teeLoop(feedAll(Q, MapGet(Q[q].feed, pos), vals), q, pos, vals, 0))

\* a queue run as tee that hands its error handler to the queue it is a tee
\* of
teeSubDone_SharesHandler(q, pos, vals, i, sub, r) ==
    After(<<SubEv("sub", q, pos, i, sub, vals, NIL)>> \o r.evs
            \o <<SubEv("subend", q, pos, i, sub, <<>>, r.err)>>,
          IF r.err # NIL
          THEN Outcome(r.err, FALSE, 0,
                       [r.Q EXCEPT ![sub].startValues = <<>>,
                                   ![q].errHandler = r.Q[sub].errHandler],
                       <<>>)
          ELSE teeLoop([r.Q EXCEPT ![sub].startValues = <<>>,
                                   ![q].errHandler = r.Q[sub].errHandler],
                       q, pos, vals, i + 1))

\* a RUN / FALLBACK tee that leaves the start values with the queue
teeSubDone_NoReset(q, pos, vals, i, sub, r) ==
    IF r.crash
    THEN Outcome(NIL, TRUE, 0, r.Q,
                 <<SubEv("sub", q, pos, i, sub, vals, NIL)>> \o r.evs)
    ELSE After(<<SubEv("sub", q, pos, i, sub, vals, NIL)>> \o r.evs
                 \o <<SubEv("subend", q, pos, i, sub, <<>>, r.err)>>,
               IF r.err # NIL THEN Outcome(r.err, FALSE, 0, r.Q, <<>>)
               ELSE teeLoop(r.Q, q, pos, vals, i + 1))

\* a RUN / FALLBACK tee after the queue sub returned r: its start values are
\* emptied (not when a panic went through), an error ends the loop
teeSubDone(q, pos, vals, i, sub, r) ==
    IF r.crash
    THEN Outcome(NIL, TRUE, 0, r.Q,
                 <<SubEv("sub", q, pos, i, sub, vals, NIL)>> \o r.evs)
    ELSE After(<<SubEv("sub", q, pos, i, sub, vals, NIL)>> \o r.evs
                 \o <<SubEv("subend", q, pos, i, sub, <<>>, r.err)>>,
               IF r.err # NIL
               THEN Outcome(r.err, FALSE, 0,
                            [r.Q EXCEPT ![sub].startValues = <<>>], <<>>)
               ELSE teeLoop([r.Q EXCEPT ![sub].startValues = <<>>], q, pos,
                            vals, i + 1))

\* a function tee whose return values go to the tees after it
teeFnDone_PipesOn(Q, q, pos, vals, i, tee, r) ==
    After(<<CallEv("tee", q, pos, pos * 100 + i, tee, r)>> \o r.logs,
          IF r.err # NIL THEN Outcome(r.err, FALSE, 0, Q, <<>>)
          ELSE teeLoop(Q, q, pos, r.returns, i + 1))

\* a function tee after pipeFn gave r: an error ends the loop
teeFnDone(Q, q, pos, vals, i, tee, r) ==
    After(<<CallEv("tee", q, pos, pos * 100 + i, tee, r)>> \o r.logs,
          IF r.err # NIL THEN Outcome(r.err, FALSE, 0, Q, <<>>)
          ELSE teeLoop(Q, q, pos, vals, i + 1))

\* a runTeesAndFeed that calls a function tee as the position it hangs on
teeOne_MainPos(Q, q, pos, vals, i, tee) ==
    IF TypeOf(tee.function) = runTy
    THEN teeSubDone(q, pos, vals, i, tee.arguments[1].q,
                    Run([Q EXCEPT ![tee.arguments[1].q].startValues = vals],
                        tee.arguments[1].q))
    ELSE IF TypeOf(tee.function) = fallbackTy
    THEN teeSubDone(q, pos, vals, i, tee.arguments[1].q,
                    Fallback([Q EXCEPT
                                ![tee.arguments[1].q].startValues = vals],
                             tee.arguments[1].q))
    ELSE teeFnDone(Q, q, pos, vals, i, tee, pipeFn(Q[q], q, tee, pos, vals))

\* a runTeesAndFeed that runs a queue given as tee under the handler of the
\* queue it hangs on
teeOne_ParentHandler(Q, q, pos, vals, i, tee) ==
    IF TypeOf(tee.function) = runTy
    THEN teeSubDone(q, pos, vals, i, tee.arguments[1].q,
                    RunLoop([Q EXCEPT
                               ![tee.arguments[1].q].startValues = vals],
                            tee.arguments[1].q, handlerOf(Q[q], STOP), 0,
                            vals))
    ELSE IF TypeOf(tee.function) = fallbackTy
    THEN teeSubDone(q, pos, vals, i, tee.arguments[1].q,
                    FallbackLoop([Q EXCEPT
                                    ![tee.arguments[1].q].startValues = vals],
                                 tee.arguments[1].q, handlerOf(Q[q], IGNORE),
                                 0, vals, NIL))
    ELSE teeFnDone(Q, q, pos, vals, i, tee,
                   pipeFn(Q[q], q, tee, pos * 100 + i, vals))

\* the switch of runTeesAndFeed on the type of the tee's function
teeOne(Q, q, pos, vals, i, tee) ==
    IF TypeOf(tee.function) = runTy
    THEN teeSubDone(q, pos, vals, i, tee.arguments[1].q,
                    Run([Q EXCEPT ![tee.arguments[1].q].startValues = vals],
                        tee.arguments[1].q))
    ELSE IF TypeOf(tee.function) = fallbackTy
    THEN teeSubDone(q, pos, vals, i, tee.arguments[1].q,
                    Fallback([Q EXCEPT
                                ![tee.arguments[1].q].startValues = vals],
                             tee.arguments[1].q))
    ELSE teeFnDone(Q, q, pos, vals, i, tee,
                   pipeFn(Q[q], q, tee, pos * 100 + i, vals))

\* tees that are taken off the queue once they were run
teeLoop_OneShot(Q, q, pos, vals, i) ==
    IF i >= Len(MapGet(Q[q].tees, pos))
    THEN Outcome(NIL, FALSE, 0,
                 [Q EXCEPT ![q].tees = [k \in DOMAIN @ \ {pos} |-> @[k]]],
                 <<>>)
    ELSE teeOne(Q, q, pos, vals, i, MapGet(Q[q].tees, pos)[i + 1])

\* the loop of runTeesAndFeed over q.tees[pos], from the i-th tee on
teeLoop(Q, q, pos, vals, i) ==
    IF i >= Len(MapGet(Q[q].tees, pos)) THEN Outcome(NIL, FALSE, 0, Q, <<>>)
    ELSE teeOne(Q, q, pos, vals, i, MapGet(Q[q].tees, pos)[i + 1])

\* a Run that goes on with the next position while the tees of position i
\* are still at work
RunTeeHandled_Deferred(q, errHandler, i, vals, t, ht) ==
    [RunLoop(t.Q, q, errHandler, i + 1, vals) EXCEPT
        !.evs = ht.evs \o @ \o t.evs]

\* Run after the tees and feeds of position i gave t and the handler ht for
\* the error of a tee: stop with what the handler returned, or go on
RunTeeHandled(q, errHandler, i, vals, t, ht) ==
    After(t.evs \o ht.evs,
          IF ht.crash THEN Outcome(NIL, TRUE, 0, t.Q, <<>>)
          ELSE IF ht.err # NIL THEN Outcome(ht.err, FALSE, 0, t.Q, <<>>)
          ELSE RunLoop(t.Q, q, errHandler, i + 1, vals))

\* a Run that returns the error of a tee without asking the handler
RunTeed_Unhandled(q, errHandler, i, vals, t) ==
    RunTeeHandled(q, errHandler, i, vals, t,
                  [err |-> t.err, crash |-> t.crash, evs |-> <<>>])

\* Run after the tees and feeds of position i gave t
RunTeed(q, errHandler, i, vals, t) ==
    RunTeeHandled(q, errHandler, i, vals, t,
                  IF t.crash THEN [err |-> NIL, crash |-> TRUE, evs |-> <<>>]
                  ELSE handle(t.Q[q], q, i, errHandler, t.err))

\* Run after the handler gave hr for the error of position i: stop with what
\* the handler returned, or run the tees and feeds of the position
RunHandled(Q, q, errHandler, i, r, hr) ==
    After(<<CallEv("call", q, i, i, Q[q].functions[i + 1], r)>> \o r.logs
            \o hr.evs,
          IF hr.crash THEN Outcome(NIL, TRUE, 0, Q, <<>>)
          ELSE IF hr.err # NIL THEN Outcome(hr.err, FALSE, 0, Q, <<>>)
          ELSE RunTeed(q, errHandler, i, r.returns,
                       runTeesAndFeed(Q, q, i, r.returns)))

\* Run after pipeFn gave r for position i
RunCalled(Q, q, errHandler, i, r) ==
    RunHandled(Q, q, errHandler, i, r, handle(Q[q], q, i, errHandler, r.err))

\* a Run that keeps the values piped to a step when the step panics
RunLoop_PanicKeeps(Q, q, errHandler, i, vals) ==
    IF i >= Len(Q[q].functions) THEN Outcome(NIL, FALSE, 0, Q, <<>>)
    ELSE LET r == pipeFn(Q[q], q, Q[q].functions[i + 1], i, vals)
         IN RunCalled(Q, q, errHandler, i,
                      IF r.err.kind = "CallPanic"
                      THEN [r EXCEPT !.returns = vals] ELSE r)

\* the loop of Run from position i on, vals being the values piped to it
RunLoop(Q, q, errHandler, i, vals) ==
    IF i >= Len(Q[q].functions) THEN Outcome(NIL, FALSE, 0, Q, <<>>)
    ELSE RunCalled(Q, q, errHandler, i,
                   pipeFn(Q[q], q, Q[q].functions[i + 1], i, vals))

\* a Fallback that keeps the handled error in the variable it returns
FallbackTeeHandled_Forgets(q, errHandler, i, vals, err, t, ht) ==
    After(t.evs \o ht.evs,
          IF ht.crash THEN Outcome(NIL, TRUE, i, t.Q, <<>>)
          ELSE IF ht.err # NIL THEN Outcome(ht.err, FALSE, i, t.Q, <<>>)
          ELSE FallbackLoop(t.Q, q, errHandler, i + 1, vals, NIL))

\* Fallback after the tees and feeds of position i gave t and the handler ht
\* for the error of a tee; err is the error of the step at position i
FallbackTeeHandled(q, errHandler, i, vals, err, t, ht) ==
    After(t.evs \o ht.evs,
          IF ht.crash THEN Outcome(NIL, TRUE, i, t.Q, <<>>)
          ELSE IF ht.err # NIL THEN Outcome(ht.err, FALSE, i, t.Q, <<>>)
          ELSE FallbackLoop(t.Q, q, errHandler, i + 1, vals, err))

\* Fallback after the tees and feeds of position i gave t
FallbackTeed(q, errHandler, i, vals, err, t) ==
    FallbackTeeHandled(q, errHandler, i, vals, err, t,
                       IF t.crash
                       THEN [err |-> NIL, crash |-> TRUE, evs |-> <<>>]
                       ELSE handle(t.Q[q], q, i, errHandler, t.err))

\* a Fallback that returns the error of the step where the handler gave
\* another one
FallbackHandled_KeepsOriginal(Q, q, errHandler, i, r, hr) ==
    After(hr.evs,
          IF hr.crash THEN Outcome(NIL, TRUE, i, Q, <<>>)
          ELSE IF hr.err # NIL THEN Outcome(r.err, FALSE, i, Q, <<>>)
          ELSE FallbackTeed(q, errHandler, i, r.returns, r.err,
                            runTeesAndFeed(Q, q, i, r.returns)))

\* Fallback after the handler gave hr for the error of position i
FallbackHandled(Q, q, errHandler, i, r, hr) ==
    After(hr.evs,
          IF hr.crash THEN Outcome(NIL, TRUE, i, Q, <<>>)
          ELSE IF hr.err # NIL THEN Outcome(hr.err, FALSE, i, Q, <<>>)
          ELSE FallbackTeed(q, errHandler, i, r.returns, r.err,
                            runTeesAndFeed(Q, q, i, r.returns)))

\* a Fallback without the return after a step without an error
FallbackCalled_NoReturn(Q, q, errHandler, i, r) ==
    After(<<CallEv("call", q, i, i, Q[q].functions[i + 1], r)>> \o r.logs,
          FallbackHandled(Q, q, errHandler, i, r,
                          handle(Q[q], q, i, errHandler, r.err)))

\* Fallback after pipeFn gave r for position i: without an error the feed
\* targets get the values and Fallback returns
FallbackCalled(Q, q, errHandler, i, r) ==
    After(<<CallEv("call", q, i, i, Q[q].functions[i + 1], r)>> \o r.logs,
          IF r.err = NIL
          THEN Outcome(NIL, FALSE, i,
                       feedAll(Q, MapGet(Q[q].feed, i), r.returns),
                       feedEvs(q, i, MapGet(Q[q].feed, i), r.returns))
          ELSE FallbackHandled(Q, q, errHandler, i, r,
                               handle(Q[q], q, i, errHandler, r.err)))

\* a Fallback that returns the number of steps when none gave no error
FallbackLoop_EndPos(Q, q, errHandler, i, vals, err) ==
    IF i >= Len(Q[q].functions) THEN Outcome(err, FALSE, i, Q, <<>>)
    ELSE FallbackCalled(Q, q, errHandler, i,
                        pipeFn(Q[q], q, Q[q].functions[i + 1], i, vals))

\* a Fallback that returns the index before the end of the steps also when
\* there are none
FallbackLoop_LastIndex(Q, q, errHandler, i, vals, err) ==
    IF i >= Len(Q[q].functions) THEN Outcome(err, FALSE, i - 1, Q, <<>>)
    ELSE FallbackCalled(Q, q, errHandler, i,
                        pipeFn(Q[q], q, Q[q].functions[i + 1], i, vals))

\* the loop of Fallback from position i on; err is the error the pass before
\* left in the result
FallbackLoop(Q, q, errHandler, i, vals, err) ==
    IF i >= Len(Q[q].functions)
    THEN Outcome(err, FALSE, IF i = 0 THEN 0 ELSE i - 1, Q, <<>>)
    ELSE FallbackCalled(Q, q, errHandler, i,
                        pipeFn(Q[q], q, Q[q].functions[i + 1], i, vals))

\* ---------------------------------------------------------------- validator
\* a validateNums that wants an argument for the variadic parameter
validateNums_NoMissing(fn, args) ==
    [numIns |-> Len(fn.ins), numArgs |-> Len(args),
     diff |-> Len(args) - Len(fn.ins),
     err |-> IF Len(args) - Len(fn.ins) = 0 THEN ""
             ELSE IF ~fn.variadic THEN "func wants arguments"
             ELSE IF Len(args) - Len(fn.ins) < 0
             THEN "func wants at least arguments"
             ELSE ""]

\* validateNums: the number of parameters, of arguments, their difference
\* and the error ("" is nil) when the numbers can not fit
validateNums(fn, args) ==
    [numIns |-> Len(fn.ins), numArgs |-> Len(args),
     diff |-> Len(args) - Len(fn.ins),
     err |-> IF Len(args) - Len(fn.ins) = 0 THEN ""
             ELSE IF ~fn.variadic THEN "func wants arguments"
             ELSE IF Len(args) - Len(fn.ins) < -1
             THEN "func wants at least arguments"
             ELSE ""]

\* validateArgs: the error ("" is nil) of calling a function of type fn with
\* arguments of the types args; the last entry of the ins of a variadic
\* type is the element type of its variadic parameter
validateArgs(fn, args) ==
    LET n == validateNums(fn, args)
        limit == IF fn.variadic THEN n.numIns - 1 ELSE n.numIns
    IN IF n.err # "" THEN n.err
       ELSE IF n.numIns = 0 THEN ""
       ELSE IF \E i \in 0..(limit - 1) :
                  ~AssignableTo(args[i + 1], fn.ins[i + 1])
       THEN "argument is a but should be a"
       ELSE IF ~fn.variadic THEN ""
       ELSE IF \E i \in 0..n.diff :
                  ~AssignableTo(args[i + n.numIns], fn.ins[n.numIns])
       THEN "argument is a but should be a"
       ELSE ""

\* the types of the arguments: every PIPE replaced by the piped types
RECURSIVE expandTypes(_, _)
expandTypes(arguments, piped) ==
    IF arguments = <<>> THEN <<>>
    ELSE (IF Head(arguments) = PIPE THEN piped ELSE <<Head(arguments).ty>>)
           \o expandTypes(Tail(arguments), piped)

\* the types a function hands on: its outputs without a trailing error
outTypes(f) ==
    IF Len(f.outs) = 0 THEN <<>>
    ELSE IF f.outs[Len(f.outs)] = "error"
    THEN SubSeq(f.outs, 1, Len(f.outs) - 1)
    ELSE f.outs

\* validateFn: validates the call c at position i against the piped types;
\* gives the types it hands on, the error, the argument types and the log
\* lines written
validateFn(qu, qid, c, i, piped) ==
    IF c.function.kind # "func"
    THEN [returns |-> <<>>, err |-> InvalidFunc(i, c), all |-> <<>>,
          logs |-> logPanic(qu, qid, i, c.name)]
    ELSE LET all == expandTypes(c.arguments, piped)
         IN IF validateArgs(TypeOf(c.function), all) # ""
            THEN [returns |-> <<>>, err |-> InvalidArgument(i, c),
                  all |-> all, logs |-> logPanic(qu, qid, i, c.name)]
            ELSE [returns |-> outTypes(c.function), err |-> NIL,
                  all |-> all, logs |-> <<>>]

\* the record of the validation of position i
ValidateEv(qid, i, c, r) ==
    [NoEv EXCEPT !.ev = "validate", !.q = qid, !.at = i, !.pos = i,
                 !.name = c.name, !.types = r.all, !.err = r.err]

RECURSIVE CheckLoop(_, _, _, _)

\* a Check that goes on after a position with an error
CheckValidated_GoesOn(qu, qid, i, r) ==
    After(<<ValidateEv(qid, i, qu.functions[i + 1], r)>> \o r.logs,
          IF r.err # NIL /\ i + 1 >= Len(qu.functions)
          THEN [err |-> r.err, evs |-> <<>>]
          ELSE CheckLoop(qu, qid, i + 1, r.returns))

\* Check after validateFn gave r for position i: an error ends the loop
CheckValidated(qu, qid, i, r) ==
    After(<<ValidateEv(qid, i, qu.functions[i + 1], r)>> \o r.logs,
          IF r.err # NIL THEN [err |-> r.err, evs |-> <<>>]
          ELSE CheckLoop(qu, qid, i + 1, r.returns))

\* the loop of Check from position i on, piped being the types handed on
CheckLoop(qu, qid, i, piped) ==
    IF i >= Len(qu.functions) THEN [err |-> NIL, evs |-> <<>>]
    ELSE CheckValidated(qu, qid, i,
                        validateFn(qu, qid, qu.functions[i + 1], i, piped))

\* a Check that starts from the types of the start values of the queue
Check_FromStart(qu, qid) ==
    CheckLoop(qu, qid, 0,
              [k \in 1..Len(qu.startValues) |-> qu.startValues[k].ty])

\* Queue.Check
Check(qu, qid) == CheckLoop(qu, qid, 0, <<>>)

\* a CheckAndRun that hands the error of Check to the error handler
CheckedRun_Handled(Q, q, ck) ==
    IF ck.err # NIL
    THEN Outcome(HandleError(handlerOf(Q[q], STOP), ck.err).err, FALSE, 0, Q,
                 ck.evs)
    ELSE After(ck.evs, Run(Q, q))

\* CheckAndRun after Check gave ck
CheckedRun(Q, q, ck) ==
    IF ck.err # NIL THEN Outcome(ck.err, FALSE, 0, Q, ck.evs)
    ELSE After(ck.evs, Run(Q, q))

\* CheckAndFallback after Check gave ck
CheckedFallback(Q, q, ck) ==
    IF ck.err # NIL THEN Outcome(ck.err, FALSE, 0, Q, ck.evs)
    ELSE After(ck.evs, Fallback(Q, q))

\* Queue.CheckAndRun
CheckAndRun(Q, q) == CheckedRun(Q, q, Check(Q[q], q))

\* Queue.CheckAndFallback
CheckAndFallback(Q, q) == CheckedFallback(Q, q, Check(Q[q], q))

\* -------------------------------------------------------------------- state
\* queues: the queues by name; last: what the most recent Run / Fallback
\* was called on, what it started from, what it returned and what it did;
\* threads: the goroutines that are inside runTeesAndFeed of a queue of
\* their own with the queue Sub as tee or feed
VARIABLES queues, last, threads
vars == <<queues, last, threads>>

\* the goroutines, and a goroutine that has not called anything yet: where
\* it is (pc), how the queue hangs on its position (kind), the values of
\* the position (vals), the value it is assigning to startValues (wr), the
\* start values the run of the queue read (got) and the arguments its first
\* step got (args); serial: no other goroutine was at work while it was
T1 == "t1"
T2 == "t2"
Threads == {T1, T2}
Idle ==
    [pc |-> "idle", kind |-> "", vals |-> <<>>, wr |-> <<>>, got |-> <<>>,
     args |-> <<>>, serial |-> TRUE]

NoRun ==
    [op |-> "none", q |-> "", start |-> <<>>, err |-> NIL, crash |-> FALSE,
     pos |-> 0, evs |-> <<>>, starts |-> [x \in QIds |-> <<>>]]

Init ==
    /\ queues = [q \in QIds |-> New]
    /\ last = NoRun
    /\ threads = [t \in Threads |-> Idle]

\* the number of tees and feeds registered on a queue
RECURSIVE sumLen(_, _)
sumLen(m, keys) ==
    IF keys = {} THEN 0
    ELSE LET k == CHOOSE x \in keys : TRUE
         IN Len(m[k]) + sumLen(m, keys \ {k})
attached(qu) ==
    sumLen(qu.tees, DOMAIN qu.tees) + sumLen(qu.feed, DOMAIN qu.feed)

\* ------------------------------------------------------------ build surface
\* Queue.Add
Add(q, c, max) ==
    /\ Len(queues[q].functions) < max
    /\ queues' = [queues EXCEPT ![q].functions = Append(@, c)]
    /\ last' = NoRun
    /\ UNCHANGED threads

\* Queue.WithName (it panics on a queue without functions)
WithName(q, name) ==
    /\ Len(queues[q].functions) > 0
    /\ queues' = [queues EXCEPT
                    ![q].functions[Len(queues[q].functions)].name = name]
    /\ last' = NoRun
    /\ UNCHANGED threads

\* an OnError that keeps a handler that is set already
OnError_First(q, handler) ==
    /\ queues' = [queues EXCEPT
                    ![q].errHandler = IF @ = NoHandler THEN handler ELSE @]
    /\ last' = NoRun
    /\ UNCHANGED threads

\* Queue.OnError
OnError(q, handler) ==
    /\ queues' = [queues EXCEPT ![q].errHandler = handler]
    /\ last' = NoRun
    /\ UNCHANGED threads

\* a Tee that registers at the position of the function added next
Tee_AtNext(q, c, max) ==
    /\ attached(queues[q]) < max
    /\ queues' = [queues EXCEPT
                    ![q].tees = MapAppend(@, Len(queues[q].functions), <<c>>)]
    /\ last' = NoRun
    /\ UNCHANGED threads

\* Queue.Tee
Tee(q, c, max) ==
    /\ attached(queues[q]) < max
    /\ queues' = [queues EXCEPT
                    ![q].tees = MapAppend(@, Len(queues[q].functions) - 1,
                                          <<c>>)]
    /\ last' = NoRun
    /\ UNCHANGED threads

\* Queue.Feed
Feed(q, feededQs, max) ==
    /\ attached(queues[q]) < max
    /\ queues' = [queues EXCEPT
                    ![q].feed = MapAppend(@, Len(queues[q].functions) - 1,
                                          feededQs)]
    /\ last' = NoRun
    /\ UNCHANGED threads

\* Queue.LogErrorsTo
LogErrorsTo(q, logTarget) ==
    /\ queues' = [queues EXCEPT ![q].logTarget = logTarget,
                                ![q].logverbose = FALSE]
    /\ last' = NoRun
    /\ UNCHANGED threads

\* Queue.LogDebugTo
LogDebugTo(q, logTarget) ==
    /\ queues' = [queues EXCEPT ![q].logTarget = logTarget,
                                ![q].logverbose = TRUE]
    /\ last' = NoRun
    /\ UNCHANGED threads

\* -------------------------------------------------------------- run surface
Ran(op, q, r) ==
    [op |-> op, q |-> q, start |-> queues[q].startValues, err |-> r.err,
     crash |-> r.crash, pos |-> r.pos, evs |-> r.evs,
     starts |-> [x \in QIds |-> queues[x].startValues]]

\* a call of Queue.Run
DoRun(q) ==
    LET r == Run(queues, q)
    IN /\ queues' = r.Q
       /\ last' = Ran("Run", q, r)
       /\ UNCHANGED threads

\* a call of Queue.Fallback
DoFallback(q) ==
    LET r == Fallback(queues, q)
    IN /\ queues' = r.Q
       /\ last' = Ran("Fallback", q, r)
       /\ UNCHANGED threads

\* the build and run surface of a queue without tees and feeds
\* a call of Queue.Check
DoCheck(q) ==
    /\ queues' = queues
    /\ last' = Ran("Check", q,
                   Outcome(Check(queues[q], q).err, FALSE, 0, queues,
                           Check(queues[q], q).evs))
    /\ UNCHANGED threads

\* a call of Queue.CheckAndRun
DoCheckAndRun(q) ==
    /\ queues' = CheckAndRun(queues, q).Q
    /\ last' = Ran("CheckAndRun", q, CheckAndRun(queues, q))
    /\ UNCHANGED threads

\* a call of Queue.CheckAndFallback
DoCheckAndFallback(q) ==
    /\ queues' = CheckAndFallback(queues, q).Q
    /\ last' = Ran("CheckAndFallback", q, CheckAndFallback(queues, q))
    /\ UNCHANGED threads

\* the sequences over S of length up to n
SeqsUpTo(S, n) == UNION { [1..k -> S] : k \in 0..n }
\* the function types and the lists of argument types validateArgs is tried
\* with
FnTypes ==
    { [ins |-> i, variadic |-> v, outs |-> <<>>] :
        i \in SeqsUpTo(Types, MaxIns), v \in BOOLEAN } \
    { [ins |-> <<>>, variadic |-> TRUE, outs |-> <<>>] }
ArgLists == SeqsUpTo(Types, MaxArgs)

\* a call of validateArgs, the one thing done
DoValidateArgs(fn, args) ==
    /\ last = NoRun
    /\ queues' = queues
    /\ last' = [NoRun EXCEPT
                  !.op = "validateArgs",
                  !.evs = <<[NoEv EXCEPT !.ev = "validateArgs", !.fty = fn,
                                         !.types = args,
                                         !.msg = validateArgs(fn, args)]>>]
    /\ UNCHANGED threads

\* ---------------------------------------------- goroutines that share Sub
\* how the queue Sub hangs on the position a goroutine is at, and the values
\* of that position
RaceKinds == {"RUN", "FALLBACK", "feed"}
RaceVals == {<<I1>>, <<S1>>}
\* a word of a slice that was read beyond what was written
Garbage == [ty |-> "garbage", v |-> 0, q |-> ""]
\* a slice header of which one half is of a and the other of b: the data of
\* a under the length of b
Torn(a, b) == [k \in 1..Len(b) |-> IF k <= Len(a) THEN a[k] ELSE Garbage]
\* the values other goroutines are assigning to Sub.startValues while the
\* goroutine t reads or assigns it
Racing(t) ==
    { threads[u].wr :
        u \in { w \in Threads \ {t} :
                  threads[w].pc \in {"assigning", "clearing"} } }
\* what an access to x gives that is not ordered with the assignments of
\* the values racing: either value, or a header torn between them
Mixed(x, racing) ==
    {x} \cup racing \cup { Torn(x, w) : w \in racing }
        \cup { Torn(w, x) : w \in racing }
\* an assignment that does not reach the field
Stored_Lost(old, v, racing) == {old}
\* what startValues may hold after v was assigned to it, old being what it
\* held
Stored(old, v, racing) == Mixed(v, racing)
\* what vals := q.startValues may give
Loaded(mem, racing) == Mixed(mem, racing)
\* the arguments of the first call of a run
FirstArgs(r) == IF r.evs = <<>> THEN <<>> ELSE r.evs[1].args

\* runTeesAndFeed(pos, vals) of the goroutine t comes to the queue Sub,
\* which hangs on pos as a feed or as the argument of a RUN / FALLBACK tee
Reach(t, k, v) ==
    /\ threads[t].pc = "idle"
    /\ threads' =
          [u \in Threads |->
             IF u = t
             THEN [Idle EXCEPT
                     !.pc = "assign", !.kind = k, !.vals = v, !.wr = v,
                     !.serial = \A w \in Threads \ {t} :
                                   threads[w].pc \in {"idle", "done"}]
             ELSE IF threads[u].pc \in {"idle", "done"} THEN threads[u]
             ELSE [threads[u] EXCEPT !.serial = FALSE]]
    /\ UNCHANGED <<queues, last>>

\* fe.startValues = vals, queue.startValues = vals and queue.startValues =
\* []reflect.Value{} are assignments of a slice header: they begin ...
BeginAssign(t) ==
    /\ threads[t].pc \in {"assign", "clear"}
    /\ threads' = [threads EXCEPT
                     ![t].pc = IF threads[t].pc = "assign" THEN "assigning"
                               ELSE "clearing"]
    /\ UNCHANGED <<queues, last>>

\* ... and end; after the first the queue is called if it is a tee
EndAssign(t) ==
    /\ threads[t].pc \in {"assigning", "clearing"}
    /\ \E x \in Stored(queues[Sub].startValues, threads[t].wr, Racing(t)) :
          queues' = [queues EXCEPT ![Sub].startValues = x]
    /\ threads' = [threads EXCEPT
                     ![t].pc = IF threads[t].pc = "clearing"
                                  \/ threads[t].kind = "feed"
                               THEN "done" ELSE "call"]
    /\ UNCHANGED last

\* rn(queue) / fb(queue): Run / Fallback of Sub reads q.startValues and works
\* through the steps with what it read
CallQueue(t) ==
    /\ threads[t].pc = "call"
    /\ \E g \in Loaded(queues[Sub].startValues, Racing(t)) :
          threads' =
            [threads EXCEPT
               ![t].pc = "clear", ![t].got = g, ![t].wr = <<>>,
               ![t].args =
                  FirstArgs(IF threads[t].kind = "RUN"
                            THEN RunLoop(queues, Sub,
                                         handlerOf(queues[Sub], STOP), 0, g)
                            ELSE FallbackLoop(queues, Sub,
                                              handlerOf(queues[Sub], IGNORE),
                                              0, g, NIL))]
    /\ UNCHANGED <<queues, last>>

Next ==
    \/ \E c \in MainCalls : Add(Main, c, MaxLen)
    \/ \E n \in Names : WithName(Main, n)
    \/ \E h \in Handlers : OnError(Main, h)
    \/ DoRun(Main)
    \/ DoFallback(Main)

Spec == Init /\ [][Next]_vars

\* the build and run surface of a queue with function tees and feeds
NextTee ==
    \/ \E c \in MainCalls : Add(Main, c, MaxTeeLen)
    \/ \E h \in Handlers : OnError(Main, h)
    \/ \E c \in TeeCalls : Tee(Main, c, MaxAttach)
    \/ \E t \in FeedTargets : Feed(Main, <<t>>, MaxAttach)
    \/ DoRun(Main)
    \/ DoFallback(Main)

SpecTee == Init /\ [][NextTee]_vars

\* named steps and tees that panic
NextPanic ==
    \/ \E c \in PanicCalls : Add(Main, c, MaxTeeLen)
    \/ \E n \in Names : WithName(Main, n)
    \/ \E h \in Handlers : OnError(Main, h)
    \/ \E c \in PanicTees : Tee(Main, c, MaxAttach)
    \/ DoRun(Main)
    \/ DoFallback(Main)

SpecPanic == Init /\ [][NextPanic]_vars

\* queues that are validated, with values that are no functions, arguments
\* that do not fit and a log target
NextCheck ==
    \/ \E c \in CheckCalls : Add(Main, c, MaxTeeLen)
    \/ \E h \in Handlers : OnError(Main, h)
    \/ \E c \in CheckTees : Tee(Main, c, MaxAttach)
    \/ LogErrorsTo(Main, W1)
    \/ LogDebugTo(Main, W1)
    \/ DoCheck(Main)
    \/ DoCheckAndRun(Main)
    \/ DoCheckAndFallback(Main)
    \/ DoRun(Main)
    \/ DoFallback(Main)

SpecCheck == Init /\ [][NextCheck]_vars

\* several tees and feeds at one position
NextBranch ==
    \/ \E c \in BranchCalls : Add(Main, c, MaxTeeLen)
    \/ \E h \in Handlers : OnError(Main, h)
    \/ \E c \in BranchTees : Tee(Main, c, MaxBranch)
    \/ \E t \in BranchFeeds : Feed(Main, <<t>>, MaxBranch)
    \/ DoRun(Main)
    \/ DoFallback(Main)

SpecBranch == Init /\ [][NextBranch]_vars

\* several function tees on one position of a queue that logs
NextPos ==
    \/ \E c \in PosCalls : Add(Main, c, MaxTeeLen)
    \/ OnError(Main, IGNORE)
    \/ \E c \in PosTees : Tee(Main, c, MaxBranch)
    \/ LogErrorsTo(Main, W1)
    \/ LogDebugTo(Main, W1)
    \/ DoRun(Main)
    \/ DoFallback(Main)

SpecPos == Init /\ [][NextPos]_vars

\* a queue that is fed and tee'd by a main queue and is run on its own
NextTarget ==
    \/ \E c \in SubMainCalls : Add(Main, c, MaxTeeLen)
    \/ \E c \in SubCalls : Add(Sub, c, MaxSubLen)
    \/ OnError(Main, IGNORE)
    \/ \E c \in SubTees : Tee(Main, c, MaxAttach)
    \/ Feed(Main, <<Sub>>, MaxBranch)
    \/ DoRun(Main)
    \/ DoRun(Sub)
    \/ DoFallback(Sub)

SpecTarget == Init /\ [][NextTarget]_vars

\* a main queue and a queue it runs as tee, each with a handler of its own
NextOwn ==
    \/ \E c \in SubMainCalls : Add(Main, c, MaxSubLen)
    \/ \E c \in OwnCalls : Add(Sub, c, MaxTeeLen)
    \/ \E h \in OwnHandlers : OnError(Main, h)
    \/ \E h \in OwnHandlers : OnError(Sub, h)
    \/ \E c \in SubTees : Tee(Main, c, MaxAttach)
    \/ DoRun(Main)
    \/ DoFallback(Main)

SpecOwn == Init /\ [][NextOwn]_vars

\* two goroutines whose queues have the queue Sub as tee or feed
NextRace ==
    \/ /\ \A t \in Threads : threads[t].pc = "idle"
       /\ \E c \in SubCalls : Add(Sub, c, MaxSubLen)
    \/ \E t \in Threads, k \in RaceKinds, v \in RaceVals : Reach(t, k, v)
    \/ \E t \in Threads : BeginAssign(t)
    \/ \E t \in Threads : EndAssign(t)
    \/ \E t \in Threads : CallQueue(t)

SpecRace == Init /\ [][NextRace]_vars

\* error handlers and log targets that are set again and again
NextLog ==
    \/ \E c \in LogCalls : Add(Main, c, MaxTeeLen)
    \/ \E h \in Handlers : OnError(Main, h)
    \/ \E w \in LogTargets : LogErrorsTo(Main, w)
    \/ \E w \in LogTargets : LogDebugTo(Main, w)
    \/ DoRun(Main)
    \/ DoFallback(Main)

SpecLog == Init /\ [][NextLog]_vars

\* a queue that feeds itself and is validated with start values in place
NextFed ==
    \/ \E c \in FedCalls : Add(Main, c, MaxTeeLen)
    \/ OnError(Main, IGNORE)
    \/ Feed(Main, <<Main>>, MaxAttach)
    \/ DoRun(Main)
    \/ DoCheck(Main)

SpecFed == Init /\ [][NextFed]_vars

\* a main queue that tees and feeds a second queue
NextSub ==
    \/ \E c \in SubMainCalls : Add(Main, c, MaxTeeLen)
    \/ \E c \in SubCalls : Add(Sub, c, MaxSubLen)
    \/ OnError(Main, IGNORE)
    \/ \E c \in SubTees : Tee(Main, c, MaxAttach)
    \/ Feed(Main, <<Sub>>, MaxBranch)
    \/ DoRun(Main)
    \/ DoFallback(Main)

SpecSub == Init /\ [][NextSub]_vars

\* validateArgs on its own
NextArgs == \E fn \in FnTypes, args \in ArgLists : DoValidateArgs(fn, args)

SpecArgs == Init /\ [][NextArgs]_vars

\* ------------------------------------------------- reading the last run
\* the number of functions of the queue the last run was called on
N == Len(queues[last.q].functions)
\* the handler the last run used
usedHandler ==
    handlerOf(queues[last.q], IF last.op = "Run" THEN STOP ELSE IGNORE)
\* what the last run did on its own queue, without the log lines
Done == SelectSeq(last.evs, LAMBDA e : e.ev # "log" /\ e.q = last.q)
\* the main calls of the last run
Invoked == SelectSeq(last.evs, LAMBDA e : e.ev = "call" /\ e.q = last.q)
\* the calls of the error handler in the last run
Handled == SelectSeq(last.evs, LAMBDA e : e.ev = "handle" /\ e.q = last.q)
Positions(s) == [k \in 1..Len(s) |-> s[k].pos]
Upto(n) == [k \in 1..n |-> k - 1]
\* no main call and no tee of the last run gave an error
NoErrors ==
    \A k \in 1..Len(last.evs) :
        last.evs[k].ev \in {"call", "tee"} => last.evs[k].err = NIL

\* ------------------------------------------------------------------- claims
\* C1: a Run of a queue of N steps in which no step and no tee errors or
\* panics invokes the main steps 0..N-1 once each in ascending order, never
\* calls the error handler and returns nil.
C1_RunNoErrors ==
    (last.op = "Run" /\ NoErrors)
        => /\ Positions(Invoked) = Upto(N)
           /\ Len(Handled) = 0
           /\ last.err = NIL
           /\ ~last.crash

\* a Run of two error free steps, a tee among them, has returned
C1_Witness ==
    /\ last.op = "Run"
    /\ NoErrors
    /\ N >= 2
    /\ \E k \in 1..Len(last.evs) : last.evs[k].ev = "tee"

\* C2: Run stops at the first position whose error the handler does not
\* swallow and returns exactly what the handler returned; with no handler
\* set that is the first step with an error, whose error is returned; after
\* the stop no main step, tee or feed is executed.
C2_RunStops ==
    (last.op = "Run" /\ ~last.crash)
        => /\ \A k \in 1..Len(Done) :
                (Done[k].ev = "handle" /\ Done[k].out # NIL)
                    => k = Len(Done) /\ last.err = Done[k].out
           /\ last.err # NIL
                => /\ Len(Done) > 0
                   /\ Done[Len(Done)].ev = "handle"
                   /\ Done[Len(Done)].out = last.err
           /\ queues[last.q].errHandler = NoHandler
                => \A k \in 1..Len(Invoked) :
                      Invoked[k].err # NIL
                          => k = Len(Invoked) /\ last.err = Invoked[k].err

\* a Run stopped with a transformed error before the last position of a
\* queue that has a tee or feed
C2_Witness ==
    /\ last.op = "Run"
    /\ last.err # NIL
    /\ last.err.wrapped
    /\ Len(Invoked) < N
    /\ attached(queues[last.q]) > 0

\* C3: Run with IGNORE invokes every main step once, also the steps after
\* one that returned an error, and returns nil.
C3_RunIgnore ==
    (last.op = "Run" /\ queues[last.q].errHandler = IGNORE)
        => /\ Positions(Invoked) = Upto(N)
           /\ last.err = NIL
           /\ ~last.crash

\* a Run with IGNORE went on after a step that returned an error
C3_Witness ==
    /\ last.op = "Run"
    /\ queues[last.q].errHandler = IGNORE
    /\ \E k \in 1..Len(Invoked) :
          k < Len(Invoked) /\ Invoked[k].err.kind = "business"

\* the number of arguments the first j build-time arguments expand to
RECURSIVE Width(_, _, _)
Width(arguments, piped, j) ==
    IF j = 0 THEN 0
    ELSE (IF arguments[j] = PIPE THEN Len(piped) ELSE 1)
           + Width(arguments, piped, j - 1)
\* args is arguments with every PIPE replaced in place by piped
Substituted(args, arguments, piped) ==
    /\ Len(args) = Width(arguments, piped, Len(arguments))
    /\ \A j \in 1..Len(arguments) :
          LET off == Width(arguments, piped, j - 1)
          IN IF arguments[j] = PIPE
             THEN SubSeq(args, off + 1, off + Len(piped)) = piped
             ELSE args[off + 1] = arguments[j]
\* the outputs of the call c that ended as e, without a trailing error typed
\* output; a call that panicked has none
ValueSet(c, e) ==
    LET f == c.function
        n == Len(f.outs)
    IN IF e.err.kind = "CallPanic" THEN <<>>
       ELSE IF n > 0 /\ f.outs[n] = "error" THEN SubSeq(f.ret, 1, n - 1)
       ELSE f.ret

\* C4: a step is called with its build-time arguments in which every PIPE is
\* replaced in place by the outputs of the step before without a trailing
\* error typed output; for the first step by the start values of the queue.
C4_PipeExpansion ==
    last.op # "none"
        => \A k \in 1..Len(Invoked) :
              LET fs == queues[last.q].functions
                  e == Invoked[k]
                  piped == IF k = 1 THEN last.start
                           ELSE ValueSet(fs[e.pos], Invoked[k - 1])
              IN Substituted(e.args, fs[e.pos + 1].arguments, piped)

\* a run started from fed values which its first step got for PIPE, and a
\* later step got literals and the outputs of a step with an error output
C4_Witness ==
    /\ last.op \in {"Run", "Fallback"}
    /\ last.start # <<>>
    /\ Len(Invoked) >= 2
    /\ \E j \in 1..Len(queues[last.q].functions[1].arguments) :
          queues[last.q].functions[1].arguments[j] = PIPE
    /\ LET c == queues[last.q].functions[2]
           p == queues[last.q].functions[1].function
       IN /\ \E j \in 1..Len(c.arguments) : c.arguments[j] = PIPE
          /\ \E j \in 1..Len(c.arguments) : c.arguments[j] # PIPE
          /\ p.outs[Len(p.outs)] = "error"
          /\ Invoked[2].args # c.arguments

\* C5: Fallback stops at the first position whose step returns no error and
\* returns that position and nil; the steps before it were invoked in order
\* and all gave an error, no step after it is invoked. Over [A fails,
\* B succeeds, C] with no handler set it returns (1, nil) without calling C.
C5_FallbackSuccess ==
    last.op = "Fallback"
        => /\ Positions(Invoked) = Upto(Len(Invoked))
           /\ \A k \in 1..Len(Invoked) :
                 Invoked[k].err = NIL
                     => /\ k = Len(Invoked)
                        /\ last.pos = Invoked[k].pos
                        /\ last.err = NIL
                        /\ ~last.crash

\* a Fallback of three steps with no handler set returned (1, nil) after the
\* first step gave an error
C5_Witness ==
    /\ last.op = "Fallback"
    /\ queues[last.q].errHandler = NoHandler
    /\ N = 3
    /\ Len(Invoked) = 2
    /\ Invoked[1].err # NIL
    /\ Invoked[2].err = NIL
    /\ last.pos = 1
    /\ last.err = NIL

\* every main step of the last run gave an error and the handler returned
\* nil every time it was called
AllSwallowed ==
    /\ \A k \in 1..Len(Invoked) : Invoked[k].err # NIL
    /\ \A k \in 1..Len(Handled) : Handled[k].out = NIL

\* C6: when every step of a queue of N >= 1 steps gives an error and the
\* handler returns nil for every error, Fallback invokes all N steps and
\* returns N-1 and the error the last step gave, as it gave it.
C6_FallbackExhausted ==
    (last.op = "Fallback" /\ ~last.crash /\ N >= 1 /\ AllSwallowed)
        => /\ Len(Invoked) = N
           /\ last.pos = N - 1
           /\ last.err # NIL
           /\ last.err = Invoked[N].err
           /\ ~last.err.wrapped

\* a Fallback of two failing steps with no handler set returned position 1
\* and the error of the second step
C6_Witness ==
    /\ last.op = "Fallback"
    /\ queues[last.q].errHandler = NoHandler
    /\ N = 2
    /\ Len(Invoked) = 2
    /\ AllSwallowed
    /\ last.pos = 1
    /\ last.err = Invoked[2].err

\* the last Fallback reached the last position and its step gave an error
LastFailed ==
    /\ last.op = "Fallback"
    /\ ~last.crash
    /\ N >= 1
    /\ Len(Invoked) = N
    /\ Invoked[N].err # NIL
\* the calls of the handler at the last position that returned an error
Refused == SelectSeq(Handled, LAMBDA e : e.at = N - 1 /\ e.out # NIL)

\* C7 as stated: whenever Fallback reaches the last position and that step
\* gives an error, Fallback returns that error as the step gave it, whatever
\* the handler returns for it.
C7_Original == LastFailed => last.err = Invoked[N].err

\* C7: when Fallback reaches the last position and that step gives an error,
\* Fallback returns position N-1; it returns the error as the step gave it
\* if the handler returned nil for it and for every error of a tee of that
\* position, and otherwise the error the handler returned.
C7_LastStepError ==
    LastFailed
        => /\ last.pos = N - 1
           /\ last.err # NIL
           /\ IF Refused = <<>> THEN last.err = Invoked[N].err
              ELSE last.err = Refused[1].out

\* a Fallback reached the last of two steps, for whose error the handler
\* returned another error, and returned the handler's error
C7_Witness ==
    /\ LastFailed
    /\ N = 2
    /\ Refused # <<>>
    /\ Refused[1].err = Invoked[N].err
    /\ Refused[1].out # Invoked[N].err
    /\ last.err = Refused[1].out

\* C8: in Fallback, when the step at position i gives an error, the handler
\* is called with it; if the handler returns an error, Fallback stops there
\* and returns i and the handler's error, no tee of i and no later step is
\* invoked; if it returns nil and i is not the last position, the step at
\* position i+1 is invoked.
C8_FallbackHandler ==
    (last.op = "Fallback" /\ ~last.crash)
        => \A k \in 1..Len(Done) :
              (Done[k].ev = "call" /\ Done[k].err # NIL)
                  => /\ k < Len(Done)
                     /\ Done[k + 1].ev = "handle"
                     /\ Done[k + 1].err = Done[k].err
                     /\ Done[k + 1].out # NIL
                           => /\ k + 1 = Len(Done)
                              /\ last.pos = Done[k].pos
                              /\ last.err = Done[k + 1].out
                     /\ (Done[k + 1].out = NIL /\ Done[k].pos < N - 1)
                           => \E j \in (k + 2)..Len(Done) :
                                 /\ Done[j].ev = "call"
                                 /\ Done[j].pos = Done[k].pos + 1

\* the call descriptor of the tee a "tee" record is about
TeeOf(e) == MapGet(queues[last.q].tees, e.at)[e.pos - e.at * 100 + 1]
\* the values the main step at position p of the last run got for PIPE
PipedTo(p) == IF p = 0 THEN last.start ELSE Invoked[p].vals

\* C9: a main step or function tee that panics gives a CallPanic, an error
\* of a kind of its own, with the position and the name of the call and the
\* arguments it was called with; Run and Fallback return normally unless the
\* handler is PANIC; a Run with no handler set returns that CallPanic.
C9_PanicContained ==
    last.op # "none"
        => /\ \A k \in 1..Len(Invoked) :
                LET e == Invoked[k]
                    c == queues[last.q].functions[e.pos + 1]
                IN c.function.beh = "panic"
                     => /\ e.err.kind = "CallPanic"
                        /\ e.err.kind # BusinessError(1).kind
                        /\ e.err.Position = e.pos
                        /\ e.err.Name = c.name
                        /\ Substituted(e.err.Params, c.arguments,
                                       PipedTo(e.pos))
                        /\ (last.op = "Run"
                              /\ queues[last.q].errHandler = NoHandler)
                             => last.err = e.err
           /\ \A k \in 1..Len(last.evs) :
                LET e == last.evs[k]
                IN (e.ev = "tee" /\ TeeOf(e).function.beh = "panic")
                     => /\ e.err.kind = "CallPanic"
                        /\ e.err.Position = e.pos
                        /\ e.err.Name = TeeOf(e).name
                        /\ Substituted(e.err.Params, TeeOf(e).arguments,
                                       Invoked[e.at + 1].vals)
                        /\ (last.op = "Run"
                              /\ queues[last.q].errHandler = NoHandler)
                             => last.err = e.err
           /\ last.crash => usedHandler = PANIC

\* a Run with no handler set returned the CallPanic of its second step,
\* a named step that panicked when called with a literal and a piped value
C9_Witness ==
    /\ last.op = "Run"
    /\ queues[last.q].errHandler = NoHandler
    /\ ~last.crash
    /\ Len(Invoked) = 2
    /\ queues[last.q].functions[2].function.beh = "panic"
    /\ last.err.kind = "CallPanic"
    /\ last.err.Position = 1
    /\ last.err.Name = "n1"
    /\ Len(last.err.Params) = 2

\* C10: in Run the CallPanic of a step that panicked is handed to the
\* handler; if the handler returns an error Run stops and returns it; if it
\* returns nil Run goes on with the next position unless a tee of the
\* position stops it; a Run in which the handler returned nil every time
\* invokes every step and returns nil.
C10_PanicHandled ==
    last.op = "Run"
        => /\ \A k \in 1..Len(Done) :
                (Done[k].ev = "call" /\ Done[k].err.kind = "CallPanic")
                    => /\ k < Len(Done)
                       /\ Done[k + 1].ev = "handle"
                       /\ Done[k + 1].err = Done[k].err
                       /\ Done[k + 1].out = Panicked => last.crash
                       /\ Done[k + 1].out \notin {NIL, Panicked}
                             => /\ k + 1 = Len(Done)
                                /\ ~last.crash
                                /\ last.err = Done[k + 1].out
                       /\ Done[k + 1].out = NIL
                             => \/ Done[k].pos = N - 1
                                \/ \E j \in (k + 2)..Len(Done) :
                                      /\ Done[j].ev = "call"
                                      /\ Done[j].pos = Done[k].pos + 1
                                \/ \E j \in (k + 2)..Len(Done) :
                                      /\ Done[j].ev = "handle"
                                      /\ Done[j].at = Done[k].pos
                                      /\ Done[j].out # NIL
           /\ (~last.crash /\ \A k \in 1..Len(Handled) : Handled[k].out = NIL)
                 => /\ last.err = NIL
                    /\ Positions(Invoked) = Upto(N)

\* a Run whose handler returned nil for the CallPanic of a step went on to
\* the next step and returned nil
C10_Witness ==
    /\ last.op = "Run"
    /\ last.err = NIL
    /\ \E k \in 1..Len(Invoked) :
          /\ k < Len(Invoked)
          /\ Invoked[k].err.kind = "CallPanic"
          /\ \E j \in 1..Len(Handled) :
                Handled[j].err = Invoked[k].err /\ Handled[j].out = NIL

\* the positions the last Check, CheckAndRun or CheckAndFallback validated
Validated == SelectSeq(last.evs, LAMBDA e : e.ev = "validate")
\* the validation reported an error
Rejected == \E k \in 1..Len(Validated) : Validated[k].err # NIL
\* what the last run did after the validation
AfterCheck == SelectSeq(last.evs, LAMBDA e : e.ev # "validate")

\* C11: CheckAndRun and CheckAndFallback on a queue for which Check reports
\* an error return that InvalidFunc or InvalidArgument as Check gave it,
\* invoke no main step, tee or feed and never call the error handler,
\* whatever handler is set; when Check passes they do and return what Run
\* and Fallback do.
C11_CheckedRunners ==
    /\ (last.op \in {"CheckAndRun", "CheckAndFallback"} /\ Rejected)
          => /\ last.err = Validated[Len(Validated)].err
             /\ last.err.kind \in {"InvalidFunc", "InvalidArgument"}
             /\ ~last.crash
             /\ last.pos = 0
             /\ \A k \in 1..Len(last.evs) :
                   last.evs[k].ev \in {"validate", "log"}
    /\ (last.op = "CheckAndRun" /\ ~Rejected)
          => /\ last.err = Run(queues, last.q).err
             /\ last.crash = Run(queues, last.q).crash
             /\ AfterCheck = Run(queues, last.q).evs
    /\ (last.op = "CheckAndFallback" /\ ~Rejected)
          => /\ last.err = Fallback(queues, last.q).err
             /\ last.pos = Fallback(queues, last.q).pos
             /\ last.crash = Fallback(queues, last.q).crash
             /\ AfterCheck = Fallback(queues, last.q).evs

\* a CheckAndRun with IGNORE on a queue whose second value is no function
\* returned the InvalidFunc of position 1
C11_Witness ==
    /\ last.op = "CheckAndRun"
    /\ queues[last.q].errHandler = IGNORE
    /\ N = 2
    /\ last.err.kind = "InvalidFunc"
    /\ last.err.Position = 1

\* C12: when Run or Fallback gets to a position k whose value is no
\* function, the call gives an InvalidFunc for position k, which is not
\* handed to the error handler and is what the run returns.
C12_InvalidCallableAtRun ==
    last.op \in {"Run", "Fallback"}
        => \A k \in 1..Len(Invoked) :
              queues[last.q].functions[Invoked[k].pos + 1].function.kind
                  # "func"
                  => /\ Invoked[k].err.kind = "InvalidFunc"
                     /\ Invoked[k].err.Position = Invoked[k].pos
                     /\ \A j \in 1..Len(Handled) :
                           Handled[j].err # Invoked[k].err
                     /\ last.err = Invoked[k].err

\* the types handed on to position p (zero based) by the position before
PipedTypes(p) ==
    IF p = 0 THEN <<>>
    ELSE outTypes(queues[last.q].functions[p].function)
\* types is the list of the types of arguments with every PIPE replaced in
\* place by piped
SubstitutedTypes(types, arguments, piped) ==
    /\ Len(types) = Width(arguments, piped, Len(arguments))
    /\ \A j \in 1..Len(arguments) :
          LET off == Width(arguments, piped, j - 1)
          IN IF arguments[j] = PIPE
             THEN SubSeq(types, off + 1, off + Len(piped)) = piped
             ELSE types[off + 1] = arguments[j].ty
\* a function of type fn can be called with arguments of the types args
Accepts(fn, args) ==
    IF ~fn.variadic
    THEN /\ Len(args) = Len(fn.ins)
         /\ \A k \in 1..Len(args) : AssignableTo(args[k], fn.ins[k])
    ELSE /\ Len(args) >= Len(fn.ins) - 1
         /\ \A k \in 1..(Len(fn.ins) - 1) : AssignableTo(args[k], fn.ins[k])
         /\ \A k \in Len(fn.ins)..Len(args) :
               AssignableTo(args[k], fn.ins[Len(fn.ins)])

\* C13: Check validates the positions in ascending order and stops at the
\* first that fails: it returns the InvalidFunc (no function) or the
\* InvalidArgument (number or types of the arguments do not fit) of that
\* position and validates no later position; it returns nil when every
\* position fits.
C13_CheckFirstDefect ==
    last.op = "Check"
        => /\ Positions(Validated) = Upto(Len(Validated))
           /\ \A k \in 1..Len(Validated) :
                 LET c == queues[last.q].functions[k]
                     e == Validated[k]
                 IN /\ c.function.kind # "func"
                         => e.err.kind = "InvalidFunc"
                    /\ c.function.kind = "func"
                         => /\ SubstitutedTypes(e.types, c.arguments,
                                                PipedTypes(k - 1))
                            /\ IF Accepts(TypeOf(c.function), e.types)
                               THEN e.err = NIL
                               ELSE e.err.kind = "InvalidArgument"
                    /\ e.err # NIL
                         => /\ k = Len(Validated)
                            /\ e.err.Position = k - 1
                            /\ last.err = e.err
           /\ ~Rejected => Len(Validated) = N /\ last.err = NIL

\* a Check of a queue whose first call has arguments that do not fit and
\* whose second value is no function returned the InvalidArgument of
\* position 0
C13_Witness ==
    /\ last.op = "Check"
    /\ N = 2
    /\ queues[last.q].functions[1].function.kind = "func"
    /\ queues[last.q].functions[2].function.kind # "func"
    /\ Len(Validated) = 1
    /\ last.err.kind = "InvalidArgument"
    /\ last.err.Position = 0

\* C14: Check invokes no callable, no tee and not the error handler and
\* writes nothing anywhere, whether it passes or reports an error: all it
\* does is validate positions.
C14_CheckNoEffects ==
    last.op = "Check"
        => \A k \in 1..Len(last.evs) : last.evs[k].ev = "validate"

\* C15: validateArgs accepts a list of argument types for a function type
\* exactly when, not variadic, the numbers are equal and every type is
\* assignable to the parameter at its index, and when, variadic, there are
\* at least as many as fixed parameters, each of those is assignable, and
\* all further ones are assignable to the element type of the variadic
\* parameter.
C15_ValidateArgs ==
    last.op = "validateArgs"
        => (last.evs[1].msg = ""
              <=> Accepts(last.evs[1].fty, last.evs[1].types))

\* validateArgs accepted a call of a variadic function with one fixed
\* parameter that gives nothing for the variadic parameter
C15_Witness ==
    /\ last.op = "validateArgs"
    /\ last.evs[1].fty.variadic
    /\ Len(last.evs[1].fty.ins) = 2
    /\ Len(last.evs[1].types) = 1
    /\ last.evs[1].msg = ""

\* the tees registered at position p of the queue of the last run, and the
\* records of those that were called, both in order
Tees(p) == MapGet(queues[last.q].tees, p)
TeeEvs(p) ==
    SelectSeq(last.evs,
              LAMBDA e : e.ev = "tee" /\ e.q = last.q /\ e.at = p)
\* the values the main step at position p of the last run handed on
ValsOf(p) == Invoked[p + 1].vals
\* the main step at position p was called and gave no error or one for
\* which the handler returned nil
Completed(p) ==
    \E k \in 1..Len(Done) :
        /\ Done[k].ev = "call"
        /\ Done[k].pos = p
        /\ Done[k].err # NIL => Done[k + 1].out = NIL
\* the handler returned an error, or panicked, for the error of a tee of
\* position p
StoppedByTee(p) ==
    \E k \in 2..Len(Done) :
        /\ Done[k].ev = "handle"
        /\ Done[k].at = p
        /\ Done[k].out # NIL
        /\ Done[k - 1].ev = "tee"

\* C16: in Run, for every position whose step gave no error or one the
\* handler swallowed, every tee registered at the position is called once,
\* in the order of registration, with the values the step handed on (but
\* for the tees after one whose error stopped the Run).
C16_RunTees ==
    last.op = "Run"
        => \A p \in 0..(N - 1) :
              (Completed(p) /\ ~StoppedByTee(p))
                  => /\ Len(TeeEvs(p)) = Len(Tees(p))
                     /\ \A i \in 1..Len(TeeEvs(p)) :
                           /\ TeeEvs(p)[i].pos = p * 100 + (i - 1)
                           /\ Substituted(TeeEvs(p)[i].args,
                                          Tees(p)[i].arguments, ValsOf(p))

\* C17: in Run the error of a tee of position i is handed to the handler of
\* the queue like the error of a step: if the handler returns an error, Run
\* stops and returns it and nothing more is done; if it returns nil, Run
\* goes on with the step at position i+1.
C17_TeeErrorHandled ==
    last.op = "Run"
        => \A k \in 1..Len(Done) :
              (Done[k].ev = "tee" /\ Done[k].err # NIL)
                  => /\ k < Len(Done)
                     /\ Done[k + 1].ev = "handle"
                     /\ Done[k + 1].err = Done[k].err
                     /\ Done[k + 1].out # Panicked
                           => Done[k + 1].out
                                = HandleError(usedHandler, Done[k].err).err
                     /\ Done[k + 1].out # NIL
                           => /\ k + 1 = Len(Done)
                              /\ Done[k + 1].out # Panicked
                                    => last.err = Done[k + 1].out
                     /\ Done[k + 1].out = NIL
                           => IF Done[k].at = N - 1
                              THEN k + 1 = Len(Done) /\ last.err = NIL
                              ELSE /\ k + 2 <= Len(Done)
                                   /\ Done[k + 2].ev = "call"
                                   /\ Done[k + 2].pos = Done[k].at + 1

\* a Run went on with the next step after the handler returned nil for the
\* error of a tee
C17_Witness ==
    /\ last.op = "Run"
    /\ \E k \in 1..Len(Done) :
          /\ Done[k].ev = "tee"
          /\ Done[k].err # NIL
          /\ k + 2 <= Len(Done)
          /\ Done[k + 1].out = NIL
          /\ Done[k + 2].ev = "call"

\* C18: what a tee returns is dropped: the tees and feeds of position i and
\* the step at position i+1 all get the values the main step at position i
\* handed on.
C18_TeeOutputsDiscarded ==
    last.op \in {"Run", "Fallback"}
        => /\ \A k \in 1..Len(Done) :
                /\ Done[k].ev = "tee"
                     => Substituted(Done[k].args, TeeOf(Done[k]).arguments,
                                    ValsOf(Done[k].at))
                /\ Done[k].ev = "feed" => Done[k].vals = ValsOf(Done[k].at)
           /\ \A k \in 2..Len(Invoked) :
                Substituted(Invoked[k].args,
                            queues[last.q].functions[k].arguments,
                            ValsOf(k - 2))

\* a Run called a second tee of a position after a first that returned
\* values, and then the step at the next position
C18_Witness ==
    /\ last.op = "Run"
    /\ \E p \in 0..(N - 2) :
          /\ Len(TeeEvs(p)) = 2
          /\ TeeEvs(p)[1].vals # <<>>
          /\ TeeEvs(p)[1].vals # ValsOf(p)
          /\ Len(Invoked) >= p + 2

\* the positions at which t is registered as feed and whose step completed
FedAt(t) ==
    { p \in 0..(N - 1) :
        /\ Completed(p)
        /\ \E j \in 1..Len(MapGet(queues[last.q].feed, p)) :
              MapGet(queues[last.q].feed, p)[j] = t }
\* the greatest of a set of positions
Highest(P) == CHOOSE p \in P : \A x \in P : x <= p

C20_FallbackBranches ==
    (last.op = "Fallback" /\ ~last.crash)
        => \A k \in 1..Len(Done) :
              Done[k].ev \in {"tee", "feed", "sub"}
                  => Done[k].at = last.pos

\* the feeds of position p that the last run wrote, and the queues registered
\* as feed at p
FeedEvs(p) ==
    SelectSeq(last.evs,
              LAMBDA e : e.ev = "feed" /\ e.q = last.q /\ e.at = p)
Feeds(p) == MapGet(queues[last.q].feed, p)
\* the record e leaves nothing open: it is no call, tee or queue run with an
\* error the handler has not been asked about, no handler call that gave an
\* error and no queue run that has not ended
Resolved(e) ==
    CASE e.ev \in {"call", "tee", "subend"} -> e.err = NIL
      [] e.ev = "handle" -> e.out = NIL
      [] e.ev = "sub" -> FALSE
      [] OTHER -> TRUE

\* C21: Run works through the positions one after the other: when the step
\* at position i+1 is called, the step at position i has returned, the
\* handler has decided on its error, every feed of position i is written
\* and every tee of position i that was called has returned, a queue run as
\* tee with all its steps; nothing of an earlier position happens later.
C21_StrictOrder ==
    last.op = "Run"
        => /\ \A j, k \in 1..Len(Done) : j < k => Done[j].at <= Done[k].at
           /\ \A k \in 1..Len(Done) :
                 /\ Done[k].ev # "call"
                       => k > 1 /\ Done[k - 1].at = Done[k].at
                 /\ (Done[k].ev = "call" /\ Done[k].err # NIL)
                       => /\ k < Len(Done)
                          /\ Done[k + 1].ev = "handle"
                          /\ Done[k + 1].at = Done[k].at
                 /\ Done[k].ev = "feed"
                       => \A j \in 1..(k - 1) :
                             Done[j].at = Done[k].at
                                 => Done[j].ev \in {"call", "handle", "feed"}
                 /\ Done[k].ev = "sub"
                       => /\ k < Len(Done)
                          /\ Done[k + 1].ev = "subend"
                          /\ Done[k + 1].pos = Done[k].pos
                 /\ (Done[k].ev = "call" /\ Done[k].pos > 0)
                       => /\ k > 1
                          /\ Done[k - 1].at = Done[k].pos - 1
                          /\ Resolved(Done[k - 1])
                          /\ Positions(FeedEvs(Done[k].pos - 1))
                                = [j \in 1..Len(Feeds(Done[k].pos - 1))
                                     |-> Done[k].pos - 1]
                          /\ [j \in 1..Len(FeedEvs(Done[k].pos - 1))
                                |-> FeedEvs(Done[k].pos - 1)[j].tgt]
                                = Feeds(Done[k].pos - 1)
           /\ \A k \in 1..Len(last.evs) :
                 last.evs[k].q # last.q
                     => /\ k > 1
                        /\ k < Len(last.evs)
                        /\ last.evs[k - 1].q = last.q
                              => last.evs[k - 1].ev = "sub"
                        /\ last.evs[k + 1].q = last.q
                              => last.evs[k + 1].ev = "subend"

\* a Run called its second step after the first step gave an error the
\* handler swallowed, a feed of the first position was written and a queue
\* run as tee of that position had called a step and returned
C21_Witness ==
    /\ last.op = "Run"
    /\ Len(Invoked) = 2
    /\ Invoked[1].err # NIL
    /\ Len(FeedEvs(0)) = 1
    /\ \E k \in 2..(Len(last.evs) - 1) :
          /\ last.evs[k - 1].ev = "sub"
          /\ last.evs[k - 1].at = 0
          /\ last.evs[k].q = Sub
          /\ last.evs[k].ev = "call"
          /\ last.evs[k + 1].ev = "subend"

\* a queue as it was built: all but its start values
Built(qu) == [qu EXCEPT !.startValues = <<>>]
\* what running the queue of the run r once more gives, from the queues Q
Again(r, Q) == IF r.op = "Run" THEN Run(Q, r.q) ELSE Fallback(Q, r.q)

\* C22: Run and Fallback leave the functions with their arguments and
\* names, the error handler, the log target and verbosity, the tees and the
\* feeds of every queue as they are; run once more with the same start
\* values the queue calls the same positions with the same arguments and
\* returns the same.
C22_RunsLeaveQueue ==
    [][last'.op \in {"Run", "Fallback"}
         => /\ \A x \in QIds : Built(queues'[x]) = Built(queues[x])
            /\ queues'[last'.q].startValues = last'.start
                  => Again(last', queues')
                       = Outcome(last'.err, last'.crash, last'.pos, queues',
                                 last'.evs)]_vars

\* a Run of two steps that called a tee and wrote a feed has left its queue
\* with the start values it began with, and the tee and the feed in place
C22_Witness ==
    /\ last.op = "Run"
    /\ Len(Invoked) = 2
    /\ \E p \in 0..1 : Len(TeeEvs(p)) = 1 /\ Len(Tees(p)) = 1
    /\ \E p \in 0..1 : Len(FeedEvs(p)) = 1 /\ Len(Feeds(p)) = 1
    /\ queues[last.q].startValues = last.start

\* the queues the run r ran as tee or wrote as feed
Branched(r) ==
    { r.evs[k].tgt : k \in { j \in 1..Len(r.evs) :
                               /\ r.evs[j].q = r.q
                               /\ r.evs[j].ev \in {"sub", "feed"} } }

\* C23: a Run or Fallback that runs a queue as tee or writes the start
\* values of a feed target leaves the functions and the error handler of
\* its own queue as they are.
C23_ParentUntouched ==
    [][(last'.op \in {"Run", "Fallback"} /\ Branched(last') # {})
         => /\ queues'[last'.q].functions = queues[last'.q].functions
            /\ queues'[last'.q].errHandler = queues[last'.q].errHandler
      ]_vars

\* a Run of a queue with a handler set ran a second queue without one as
\* tee, that queue called a step, and wrote the start values of a feed
C23_Witness ==
    /\ last.op = "Run"
    /\ queues[last.q].errHandler = IGNORE
    /\ queues[Sub].errHandler = NoHandler
    /\ \E k \in 1..Len(last.evs) :
          last.evs[k].ev = "call" /\ last.evs[k].q = Sub
    /\ \E k \in 1..Len(Done) : Done[k].ev = "feed" /\ Done[k].tgt = Sub
    /\ \E k \in 1..Len(Done) : Done[k].ev = "sub" /\ Done[k].tgt = Sub

\* the last run stopped at the first error of a step or tee and returned
\* it as it was
StoppedAtFirst ==
    /\ ~last.crash
    /\ \A k \in 1..Len(Done) :
          (Done[k].ev \in {"call", "tee"} /\ Done[k].err # NIL)
              => /\ k + 1 = Len(Done)
                 /\ Done[k + 1].ev = "handle"
                 /\ Done[k + 1].out = Done[k].err
                 /\ last.err = Done[k].err
    /\ NoErrors => last.err = NIL /\ Len(Handled) = 0
\* the last run swallowed every error and went on to the next position
WentOn ==
    /\ ~last.crash
    /\ \A k \in 1..Len(Done) :
          /\ Done[k].ev = "handle" => Done[k].out = NIL
          /\ (Done[k].ev \in {"call", "tee"} /\ Done[k].err # NIL)
                => /\ k < Len(Done)
                   /\ Done[k + 1].ev = "handle"
                   /\ Done[k].at < N - 1
                         => \E j \in (k + 2)..Len(Done) :
                               /\ Done[j].ev = "call"
                               /\ Done[j].pos = Done[k].at + 1

\* C24: a queue on which no handler was set is run by Run as with STOP, the
\* first error stops the run and is returned as it is, and by Fallback as
\* with IGNORE, every error is swallowed and the next position is tried;
\* neither stores a handler in the queue, so that holds for every Run and
\* every Fallback, whatever was run before.
C24_DefaultHandler ==
    [][(last'.op \in {"Run", "Fallback"}
          /\ queues[last'.q].errHandler = NoHandler)
         => /\ queues'[last'.q].errHandler = NoHandler
            /\ last'.op = "Run" => StoppedAtFirst'
            /\ last'.op = "Fallback" => WentOn']_vars

\* a Run of a queue without handler stopped with the error of its first
\* step, started from values that only a Fallback of this queue, going on
\* after that error, can have fed to it
C24_Witness ==
    /\ last.op = "Run"
    /\ queues[last.q].errHandler = NoHandler
    /\ last.start # <<>>
    /\ N = 2
    /\ Len(Invoked) = 1
    /\ Invoked[1].err # NIL
    /\ last.err = Invoked[1].err
    /\ Feeds(0) = <<last.q>>

\* the lines the last run wrote to a log target
LogLines == SelectSeq(last.evs, LAMBDA e : e.ev = "log" /\ e.q = last.q)
\* every call of the handler in the last run gave what the handler the queue
\* has gives for the error
OneHandler ==
    \A k \in 1..Len(Handled) :
        Handled[k].out
            = IF HandleError(usedHandler, Handled[k].err).crash THEN Panicked
              ELSE HandleError(usedHandler, Handled[k].err).err
\* every line of the last run went to the log target the queue has, debug
\* lines if and only if the queue is verbose, and a queue with a log target
\* has a line for a call that gave an error
OneLogBinding ==
    /\ \A k \in 1..Len(LogLines) :
          /\ queues[last.q].logTarget # NoTarget
          /\ LogLines[k].tgt = queues[last.q].logTarget
          /\ LogLines[k].lvl = "DEBUG" => queues[last.q].logverbose
          /\ LogLines[k].lvl = "ERROR" => ~queues[last.q].logverbose
    /\ (queues[last.q].logTarget # NoTarget
          /\ \E k \in 1..Len(Invoked) : Invoked[k].err # NIL)
         => LogLines # <<>>
    /\ (queues[last.q].logTarget # NoTarget /\ queues[last.q].logverbose
          /\ Handled # <<>> /\ ~last.crash)
         => \E k \in 1..Len(LogLines) : LogLines[k].lvl = "DEBUG"

\* C25: a queue has one error handler and one log binding: whatever was set
\* before, OnError leaves the handler it is given, LogErrorsTo the target it
\* is given and no verbosity, LogDebugTo the target it is given and
\* verbosity, and nothing else of the queue is changed; a run calls the
\* handler the queue has and no other, and writes to the target the queue
\* has with the verbosity it has.
C25_LastSetterWins ==
    /\ \A h \in Handlers :
          /\ ENABLED OnError(Main, h)
          /\ ~ENABLED (OnError(Main, h)
                         /\ queues' # [queues EXCEPT ![Main].errHandler = h])
    /\ \A w \in LogTargets :
          /\ ENABLED LogErrorsTo(Main, w)
          /\ ~ENABLED (LogErrorsTo(Main, w)
                         /\ queues' # [queues EXCEPT
                                          ![Main].logTarget = w,
                                          ![Main].logverbose = FALSE])
          /\ ENABLED LogDebugTo(Main, w)
          /\ ~ENABLED (LogDebugTo(Main, w)
                         /\ queues' # [queues EXCEPT
                                          ![Main].logTarget = w,
                                          ![Main].logverbose = TRUE])
    /\ last.op \in {"Run", "Fallback"} => OneHandler /\ OneLogBinding

\* a Run of a queue with a custom handler and the second log target, not
\* verbose, wrote the error of a step to that target and had the handler
\* swallow it
C25_Witness ==
    /\ last.op = "Run"
    /\ queues[last.q].errHandler = CUSTOM
    /\ queues[last.q].logTarget = W2
    /\ ~queues[last.q].logverbose
    /\ \E k \in 1..Len(LogLines) :
          LogLines[k].lvl = "ERROR" /\ LogLines[k].tgt = W2
    /\ \E k \in 1..Len(Handled) :
          Handled[k].err.kind = "business" /\ Handled[k].out = NIL

\* the first main call or tee of the last run that gave an error is the
\* k-th thing the run did
FirstError(k) ==
    /\ Done[k].ev \in {"call", "tee"}
    /\ Done[k].err # NIL
    /\ \A j \in 1..(k - 1) :
          Done[j].ev \in {"call", "tee"} => Done[j].err = NIL

\* C26: with PANIC the first error handed to the handler ends Run and
\* Fallback by a panic that goes on to the caller, no error is returned and
\* nothing is done after the call of the handler; a run without an error
\* returns normally; STOP hands back the error it got, IGNORE hands back nil
\* for every error.
C26_Predefined ==
    last.op \in {"Run", "Fallback"}
        => /\ queues[last.q].errHandler = PANIC
                 => /\ last.crash <=> ~NoErrors
                    /\ last.crash => last.err = NIL
                    /\ \A k \in 1..Len(Done) :
                          FirstError(k)
                              => /\ Len(Done) = k + 1
                                 /\ Done[k + 1].ev = "handle"
                                 /\ Done[k + 1].err = Done[k].err
                                 /\ Done[k + 1].out = Panicked
           /\ queues[last.q].errHandler = STOP
                 => \A k \in 1..Len(Handled) :
                       Handled[k].out = Handled[k].err
           /\ queues[last.q].errHandler = IGNORE
                 => \A k \in 1..Len(Handled) : Handled[k].out = NIL
           /\ queues[last.q].errHandler # PANIC => ~last.crash

\* a Run with PANIC ended by a panic at the error of the first of two steps
C26_Witness ==
    /\ last.op = "Run"
    /\ queues[last.q].errHandler = PANIC
    /\ last.crash
    /\ N = 2
    /\ Len(Invoked) = 1
    /\ Invoked[1].err.kind = "business"
    /\ Len(Handled) = 1

\* the map n is the map m with one entry more, the last in the list at key p
OneMoreAt(m, n, p) ==
    /\ DOMAIN n = DOMAIN m \cup {p}
    /\ Len(MapGet(n, p)) = Len(MapGet(m, p)) + 1
    /\ \A k \in DOMAIN n :
          SubSeq(n[k], 1, Len(MapGet(m, k))) = MapGet(m, k)
    /\ \A k \in DOMAIN m \ {p} : n[k] = m[k]

\* C27: the functions of a queue are only ever appended to: a step adds at
\* most one function, at the index that was the length, and leaves function
\* and arguments of those there, the tees and the feeds as they are; a tee
\* or feed is registered at the position that is last when it is
\* registered, the functions and the registrations there are stay as they
\* are, so it stays at that position when functions are added later.
C27_AppendOnly ==
    [][\A x \in QIds :
         /\ Len(queues'[x].functions) - Len(queues[x].functions) \in {0, 1}
         /\ \A k \in 1..Len(queues[x].functions) :
               /\ queues'[x].functions[k].function
                     = queues[x].functions[k].function
               /\ queues'[x].functions[k].arguments
                     = queues[x].functions[k].arguments
         /\ Len(queues'[x].functions) # Len(queues[x].functions)
               => /\ queues'[x].tees = queues[x].tees
                  /\ queues'[x].feed = queues[x].feed
         /\ queues'[x].tees # queues[x].tees
               => /\ OneMoreAt(queues[x].tees, queues'[x].tees,
                               Len(queues[x].functions) - 1)
                  /\ queues'[x].feed = queues[x].feed
         /\ queues'[x].feed # queues[x].feed
               => /\ OneMoreAt(queues[x].feed, queues'[x].feed,
                               Len(queues[x].functions) - 1)
                  /\ queues'[x].tees = queues[x].tees]_vars

\* a Run of two steps called the tee that was registered when the queue had
\* one step after its first step, and wrote the feed that was registered
\* when it had two after its second
C27_Witness ==
    /\ last.op = "Run"
    /\ N = 2
    /\ Len(Tees(0)) = 1
    /\ Len(Feeds(1)) = 1
    /\ Len(TeeEvs(0)) = 1
    /\ Len(FeedEvs(1)) = 1
    /\ Len(TeeEvs(1)) = 0
    /\ Len(FeedEvs(0)) = 0

\* the last Fallback returned the position of a step that gave no error
Succeeded ==
    /\ last.op = "Fallback"
    /\ ~last.crash
    /\ Len(Invoked) >= 1
    /\ Invoked[Len(Invoked)].err = NIL

\* C28: when Fallback returns the position i of a step that gave no error,
\* every tee registered at i was called with the values the step handed on
\* and every feed registered at i got those values.
C28_FallbackSuccessBranches ==
    Succeeded
        => /\ last.err = NIL
           /\ last.pos = Invoked[Len(Invoked)].pos
           /\ Len(TeeEvs(last.pos)) = Len(Tees(last.pos))
           /\ \A i \in 1..Len(TeeEvs(last.pos)) :
                 Substituted(TeeEvs(last.pos)[i].args,
                             Tees(last.pos)[i].arguments, ValsOf(last.pos))
           /\ Len(FeedEvs(last.pos)) = Len(Feeds(last.pos))
           /\ \A i \in 1..Len(FeedEvs(last.pos)) :
                 /\ FeedEvs(last.pos)[i].tgt = Feeds(last.pos)[i]
                 /\ FeedEvs(last.pos)[i].vals = ValsOf(last.pos)
                 /\ queues[Feeds(last.pos)[i]].startValues
                       = ValsOf(last.pos)

\* the declared output types of the function at position p (zero based) of
\* the queue of the last run, without a trailing error type
Declared(p) ==
    LET outs == queues[last.q].functions[p + 1].function.outs
    IN IF Len(outs) > 0 /\ outs[Len(outs)] = "error"
       THEN SubSeq(outs, 1, Len(outs) - 1)
       ELSE outs
\* the arguments of c that are not PIPE
Literals(c) == SelectSeq(c.arguments, LAMBDA a : a # PIPE)

\* C29: the types Check puts in the place of each PIPE of position i are the
\* declared output types of position i-1 in their order, without a trailing
\* error type, and none at position 0 whatever start values the queue has;
\* position i is accepted exactly when the function can be called with the
\* types of its literal arguments and these types.
C29_CheckPipedTypes ==
    last.op = "Check"
        => \A k \in 1..Len(Validated) :
              LET c == queues[last.q].functions[k]
                  e == Validated[k]
              IN c.function.kind = "func"
                   => /\ SubstitutedTypes(e.types, c.arguments,
                                          IF k = 1 THEN <<>>
                                          ELSE Declared(k - 2))
                      /\ k = 1
                           => e.types = [j \in 1..Len(Literals(c))
                                           |-> Literals(c)[j].ty]
                      /\ e.err = NIL
                           <=> Accepts(TypeOf(c.function), e.types)

\* a Check of a queue with a string as start value rejected its first step,
\* which takes one string for PIPE and which a Run from that start value
\* calls without an error
C29_Witness ==
    /\ last.op = "Check"
    /\ last.start = <<S1>>
    /\ queues[last.q].functions[1] = call(fSet, <<PIPE>>)
    /\ Validated[1].types = <<>>
    /\ last.err.kind = "InvalidArgument"
    /\ last.err.Position = 0
    /\ Run(queues, last.q).evs[1].err = NIL

\* the main calls, the tees, the returns of queues run as tee and the calls
\* of the handler of queue x in the last run, in order
Answered(x) ==
    SelectSeq(last.evs,
              LAMBDA e : /\ e.q = x
                         /\ e.ev \in {"call", "tee", "subend", "handle"})

\* C30: the error handler is called with an error that is not nil only, in
\* Run and Fallback once right after every main call and every tee that gave
\* an error, with that error, and at no other time.
C30_HandlerCalls ==
    last.op \in {"Run", "Fallback"}
        => \A x \in QIds :
              \A k \in 1..Len(Answered(x)) :
                 /\ Answered(x)[k].ev = "handle"
                       => /\ Answered(x)[k].err # NIL
                          /\ k > 1
                          /\ Answered(x)[k - 1].ev # "handle"
                          /\ Answered(x)[k - 1].err = Answered(x)[k].err
                 /\ (Answered(x)[k].ev # "handle"
                       /\ Answered(x)[k].err # NIL)
                       => /\ k < Len(Answered(x))
                          /\ Answered(x)[k + 1].ev = "handle"
                          /\ Answered(x)[k + 1].err = Answered(x)[k].err

\* a Run called the handler twice, for the error a step returned and for
\* the panic of a tee, and not for the step without an error
C30_Witness ==
    /\ last.op = "Run"
    /\ Len(Invoked) = 2
    /\ Len(Handled) = 2
    /\ \E k \in 1..2 : Invoked[k].err = NIL
    /\ \E k \in 1..2 : Invoked[k].err.kind = "business"
    /\ \E k \in 1..Len(Done) :
          Done[k].ev = "tee" /\ Done[k].err.kind = "CallPanic"

\* C31: a Run or Fallback whose handler returns ends after it called the
\* main steps 0..k for some k < N, each once, in ascending order without gap
\* and without calling a step again; a Run that returns nil has called all
\* N steps, any other run has stopped with an error or, Fallback, with a
\* step that gave none; Fallback on a queue with steps returns the index k
\* of the last step called.
C31_Terminates ==
    (last.op \in {"Run", "Fallback"} /\ usedHandler # PANIC)
        => /\ ~last.crash
           /\ Len(Invoked) <= N
           /\ N > 0 => Len(Invoked) >= 1
           /\ Positions(Invoked) = Upto(Len(Invoked))
           /\ (last.op = "Run" /\ last.err = NIL) => Len(Invoked) = N
           /\ (last.op = "Run" /\ Len(Invoked) < N) => last.err # NIL
           /\ (last.op = "Fallback" /\ N > 0)
                 => /\ last.pos = Len(Invoked) - 1
                    /\ Len(Invoked) < N
                          => \/ last.err # NIL
                             \/ Invoked[Len(Invoked)].err = NIL

\* a Fallback of three steps called all three, every one with an error, and
\* returned position 2 and an error
C31_Witness ==
    /\ last.op = "Fallback"
    /\ N = 3
    /\ Positions(Invoked) = <<0, 1, 2>>
    /\ last.pos = 2
    /\ last.err # NIL
    /\ ~last.crash

\* the records without the lines written to a log target
Quiet(evs) == SelectSeq(evs, LAMBDA e : e.ev # "log")
\* the queues Q with the log target w and the verbosity v set on queue q
Logged(Q, q, w, v) == [Q EXCEPT ![q].logTarget = w, ![q].logverbose = v]
\* no log target, a target for errors, a target for debugging
LogBindings == {<<NoTarget, FALSE>>, <<W1, FALSE>>, <<W1, TRUE>>}
\* the run r is, but for the log lines, what the same run of the queues Q
\* gives
SameBut(r, Q) ==
    /\ Again(r, Q).err = r.err
    /\ Again(r, Q).pos = r.pos
    /\ Again(r, Q).crash = r.crash
    /\ Quiet(Again(r, Q).evs) = Quiet(r.evs)

\* C32: what is logged has no part in what a run does: Run and Fallback of
\* a queue call the same steps and tees with the same arguments, call the
\* handler with the same errors and return the same whether the queue has no
\* log target, one for errors or one for debugging.
C32_LoggingApart ==
    [][last'.op \in {"Run", "Fallback"}
         => \A b \in LogBindings :
               SameBut(last', Logged(queues, last'.q, b[1], b[2]))]_vars

\* a Run of a verbose queue of two steps wrote debug lines, the handler
\* swallowed the error of the first step and the second step was called
C32_Witness ==
    /\ last.op = "Run"
    /\ queues[last.q].logTarget # NoTarget
    /\ queues[last.q].logverbose
    /\ Len(Invoked) = 2
    /\ Invoked[1].err.kind = "business"
    /\ Len(LogLines) >= 2
    /\ LogLines[1].lvl = "DEBUG"

\* the error of the main step at position p was swallowed by the handler
Swallowed(p) ==
    \E k \in 1..(Len(Done) - 1) :
        /\ Done[k].ev = "call"
        /\ Done[k].pos = p
        /\ Done[k].err # NIL
        /\ Done[k + 1].ev = "handle"
        /\ Done[k + 1].out = NIL
\* the values v are what the function tees and the feeds of position p and
\* the main step after p got in the last run
FlowedOn(p, v) ==
    /\ \A j \in 1..Len(TeeEvs(p)) :
          Substituted(TeeEvs(p)[j].args, TeeOf(TeeEvs(p)[j]).arguments, v)
    /\ \A j \in 1..Len(FeedEvs(p)) : FeedEvs(p)[j].vals = v
    /\ Len(FeedEvs(p)) = Len(Feeds(p))
    /\ Len(Invoked) > p + 1
          => Substituted(Invoked[p + 2].args,
                         queues[last.q].functions[p + 2].arguments, v)

\* C33: after a step whose error the handler swallowed, the tees and feeds
\* of its position and PIPE of the next step get the outputs of the step
\* without the error when the step returned the error, and no values at all
\* when the step panicked.
C33_AfterSwallowed ==
    last.op \in {"Run", "Fallback"}
        => \A k \in 1..Len(Invoked) :
              Swallowed(k - 1)
                  => LET f == queues[last.q].functions[k].function
                     IN IF Invoked[k].err.kind = "CallPanic"
                        THEN FlowedOn(k - 1, <<>>)
                        ELSE FlowedOn(k - 1,
                                      SubSeq(f.ret, 1, Len(f.outs) - 1))

\* a first step that was called with a value and declares an output
\* panicked, its error was swallowed, and the tee of its position and PIPE
\* of the second step got no values
C33_Witness ==
    /\ last.op = "Run"
    /\ Len(Invoked) = 2
    /\ Invoked[1].err.kind = "CallPanic"
    /\ Invoked[1].args = <<I1>>
    /\ Len(queues[last.q].functions[1].function.outs) = 1
    /\ Swallowed(0)
    /\ Invoked[2].args = <<I2>>
    /\ Len(TeeEvs(0)) = 1
    /\ TeeEvs(0)[1].args = <<>>

\* the last run was a Fallback whose first step gave no error
FirstSucceeded ==
    /\ last.op = "Fallback"
    /\ Len(Invoked) = 1
    /\ Invoked[1].pos = 0
    /\ Invoked[1].err = NIL

\* C34: on a queue without steps Fallback and Run call nothing, neither a
\* step nor a tee nor the handler, write no feed, and return no error;
\* Fallback returns position 0 with it, which is what it returns when the
\* first step of a queue gives no error.
C34_NoSteps ==
    /\ (last.op \in {"Run", "Fallback"} /\ N = 0)
          => /\ last.evs = <<>>
             /\ last.err = NIL
             /\ ~last.crash
             /\ last.pos = 0
             /\ last.starts = [x \in QIds |-> queues[x].startValues]
    /\ FirstSucceeded => last.pos = 0 /\ last.err = NIL /\ ~last.crash

\* Fallback ran on a queue without steps that has a tee and the handler
\* PANIC
C34_Witness ==
    /\ last.op = "Fallback"
    /\ N = 0
    /\ queues[last.q].errHandler = PANIC
    /\ MapGet(queues[last.q].tees, -1) # <<>>

\* the index, among the tees of its position, of the tee the record m of
\* the last run is about: the number of tees of the position called before
TeeIndex(m) ==
    Cardinality({n \in 1..(m - 1) :
                    /\ last.evs[n].ev = "tee"
                    /\ last.evs[n].q = last.evs[m].q
                    /\ last.evs[n].at = last.evs[m].at})
\* the position the call of record m of the last run is to carry
Carried(m) ==
    IF last.evs[m].ev = "tee"
    THEN last.evs[m].at * 100 + TeeIndex(m)
    ELSE Cardinality({n \in 1..(m - 1) : last.evs[n].ev = "call"})
\* the record of the call the log line j of the last run was written for:
\* the last call or tee before it
Owner(j) ==
    CHOOSE m \in 1..(j - 1) :
        /\ last.evs[m].ev \in {"call", "tee"}
        /\ \A n \in (m + 1)..(j - 1) : last.evs[n].ev \notin {"call", "tee"}
\* the record m of the last run is the call of a step or function tee
IsCall(m) == last.evs[m].ev \in {"call", "tee"} /\ last.evs[m].q = last.q
\* the call descriptor the record m is the call of
Called(m) ==
    IF last.evs[m].ev = "tee"
    THEN Tees(last.evs[m].at)[TeeIndex(m) + 1]
    ELSE queues[last.q].functions[Carried(m) + 1]

\* C35: the i-th function tee (from 0) of main position pos is called as
\* position pos*100+i: that is the Position of its CallPanic and the
\* position in the lines logged for it. A main step carries its own index.
C35_TeePosition ==
    last.op \in {"Run", "Fallback"}
        => /\ \A m \in 1..Len(last.evs) :
                 IsCall(m)
                     => /\ last.evs[m].ev = "tee"
                              => /\ last.evs[m].at \in 0..(N - 1)
                                 /\ TeeIndex(m) < Len(Tees(last.evs[m].at))
                        /\ (last.evs[m].err.kind = "CallPanic")
                              = (Called(m).function.beh = "panic")
                        /\ last.evs[m].err.kind = "CallPanic"
                              => /\ last.evs[m].err.Position = Carried(m)
                                 /\ last.evs[m].err.Type
                                        = Called(m).function.sig
           /\ \A j \in 1..Len(last.evs) :
                 (last.evs[j].ev = "log" /\ last.evs[j].name # "[E]")
                     => /\ \E m \in 1..(j - 1) : IsCall(m)
                        /\ last.evs[j].pos = Carried(Owner(j))

\* the second tee of the second step panicked: its CallPanic and the line
\* logged for it carry 101
C35_Witness ==
    /\ last.op = "Run"
    /\ \E m \in 2..(Len(last.evs) - 1) :
          /\ last.evs[m].ev = "tee"
          /\ last.evs[m].at = 1
          /\ TeeIndex(m) = 1
          /\ last.evs[m].err.kind = "CallPanic"
          /\ last.evs[m].err.Position = 101
          /\ last.evs[m + 1].ev = "log"
          /\ last.evs[m + 1].lvl = "PANIC"
          /\ last.evs[m + 1].pos = 101

\* the records of the last run that wrote the start values of queue x: a
\* feed to x, or the end of a run of x as tee
Wrote(x) ==
    SelectSeq(last.evs,
              LAMBDA e : e.tgt = x /\ e.q = last.q
                            /\ e.ev \in {"feed", "subend"})
\* a Run of queue x now would call its first step with no values for PIPE
StartsEmpty(x) ==
    /\ queues[x].startValues = <<>>
    /\ Len(queues[x].functions) > 0
          => /\ Len(Run(queues, x).evs) > 0
             /\ Substituted(Run(queues, x).evs[1].args,
                            queues[x].functions[1].arguments, <<>>)

\* C36: a queue run as a RUN or FALLBACK tee of position p starts from the
\* values of position p: its first step gets them for PIPE. When the tee has
\* returned, the start values of the queue are empty, whatever a feed wrote
\* to it before, and a Run of the queue starts from no values; only a feed
\* written after the tee returned gives it values again.
C36_TeeStartValues ==
    (last.op \in {"Run", "Fallback"} /\ ~last.crash)
        => /\ \A m \in 1..Len(last.evs) :
                 (last.evs[m].ev = "sub" /\ last.evs[m].q = last.q)
                     => /\ last.evs[m].vals = ValsOf(last.evs[m].at)
                        /\ Len(queues[last.evs[m].tgt].functions) > 0
                              => /\ last.evs[m + 1].ev = "call"
                                 /\ last.evs[m + 1].q = last.evs[m].tgt
                                 /\ last.evs[m + 1].pos = 0
                                 /\ Substituted(
                                       last.evs[m + 1].args,
                                       queues[last.evs[m].tgt]
                                           .functions[1].arguments,
                                       ValsOf(last.evs[m].at))
           /\ \A x \in QIds \ {last.q} :
                 IF Wrote(x) = <<>>
                 THEN queues[x].startValues = last.starts[x]
                 ELSE IF Wrote(x)[Len(Wrote(x))].ev = "subend"
                 THEN StartsEmpty(x)
                 ELSE queues[x].startValues = Wrote(x)[Len(Wrote(x))].vals

\* a feed wrote a value to the queue, then the queue ran as tee of the same
\* position and its step got the value of the position; after the run a Run
\* of the queue would start from no values
C36_Witness ==
    /\ last.op = "Run"
    /\ Len(Wrote(Sub)) = 2
    /\ Wrote(Sub)[1].ev = "feed"
    /\ Wrote(Sub)[1].vals = <<I1>>
    /\ Wrote(Sub)[2].ev = "subend"
    /\ \E m \in 1..Len(last.evs) :
          /\ last.evs[m].ev = "call"
          /\ last.evs[m].q = Sub
          /\ last.evs[m].args = <<I1>>
    /\ queues[Sub].startValues = <<>>
    /\ Run(queues, Sub).evs[1].args = <<>>

\* C37: Run and Fallback of a queue read its start values and leave them as
\* they are: the first step gets them for PIPE and the queue has them after
\* the run, so that the next run of the queue starts from them again. The
\* start values of a queue change only in a run that writes a feed to the
\* queue or runs it as a tee.
C37_StartValuesStay ==
    [][(\A x \in QIds :
           queues'[x].startValues # queues[x].startValues
               => last'.op \in {"Run", "Fallback"} /\ Wrote(x)' # <<>>)
       /\ (last'.op \in {"Run", "Fallback"}
              => /\ Len(queues'[last'.q].functions) > 0
                       => /\ Len(Invoked') > 0
                          /\ Substituted(
                                Invoked'[1].args,
                                queues'[last'.q].functions[1].arguments,
                                queues[last'.q].startValues)
                 /\ Wrote(last.q)' = <<>>
                       => queues'[last'.q].startValues
                             = queues[last'.q].startValues)]_vars

\* the queue ran from the value a feed wrote to it, has the value still and
\* a second Run starts from it again
C37_Witness ==
    /\ last.op = "Run"
    /\ last.q = Sub
    /\ last.start = <<I1>>
    /\ Len(Invoked) > 0
    /\ Invoked[1].args = <<I1>>
    /\ queues[Sub].startValues = <<I1>>
    /\ Run(queues, Sub).evs[1].args = <<I1>>

\* the record m of the last run is the start of a run of a queue as tee of
\* the queue of the last run, and the record n is the end of that run
SubRun(m, n) ==
    /\ m < n
    /\ last.evs[m].ev = "sub"
    /\ last.evs[m].q = last.q
    /\ last.evs[n].ev = "subend"
    /\ last.evs[n].q = last.q
    /\ last.evs[n].at = last.evs[m].at
    /\ last.evs[n].pos = last.evs[m].pos
\* the handler a queue run as the tee of record m works with: its own, or
\* STOP under RUN and IGNORE under FALLBACK
SubHandler(m) ==
    handlerOf(queues[last.evs[m].tgt],
              IF Tees(last.evs[m].at)[last.evs[m].pos + 1].function.beh
                    = "RUN"
              THEN STOP ELSE IGNORE)
\* the queue of the run m..n asked its own handler, and no other, about
\* every error of its steps
OwnHandler(m, n) ==
    \A k \in (m + 1)..(n - 1) :
        /\ last.evs[k].q = last.evs[m].tgt
        /\ (last.evs[k].ev = "call" /\ last.evs[k].err # NIL)
              => /\ last.evs[k + 1].ev = "handle"
                 /\ last.evs[k + 1].err = last.evs[k].err
        /\ last.evs[k].ev = "handle"
              => /\ last.evs[k - 1].ev = "call"
                 /\ last.evs[k].err = last.evs[k - 1].err
                 /\ last.evs[k].out
                       = HandleError(SubHandler(m), last.evs[k].err).err
\* the handler of the main queue was asked once about the run m..n: about
\* the error the run returned, if it returned one
ParentAsked(m, n) ==
    /\ last.evs[n].err
          = (IF Tees(last.evs[m].at)[last.evs[m].pos + 1].function.beh
                  = "RUN"
             THEN Run([queues EXCEPT
                         ![last.evs[m].tgt].startValues = last.evs[m].vals],
                      last.evs[m].tgt)
             ELSE Fallback([queues EXCEPT
                              ![last.evs[m].tgt].startValues
                                  = last.evs[m].vals],
                           last.evs[m].tgt)).err
    /\ last.evs[n].err # NIL
          => /\ Len(last.evs) > n
             /\ last.evs[n + 1].ev = "handle"
             /\ last.evs[n + 1].q = last.q
             /\ last.evs[n + 1].err = last.evs[n].err
    /\ last.evs[n].err = NIL
          => (Len(last.evs) > n => last.evs[n + 1].ev # "handle")
\* the handler of the queue of the run m..n returned nil for the error that
\* the run returned; at its last step, or at any
SwallowedInside(m, n) ==
    \E k \in (m + 1)..(n - 1) :
        /\ last.evs[k].ev = "handle"
        /\ last.evs[k].out = NIL
        /\ last.evs[k].err = last.evs[n].err
SwallowedAtLast(m, n) ==
    \E k \in (m + 1)..(n - 1) :
        /\ last.evs[k].ev = "handle"
        /\ last.evs[k].out = NIL
        /\ last.evs[k].err = last.evs[n].err
        /\ last.evs[k].at = Len(queues[last.evs[m].tgt].functions) - 1

\* C38 as stated: a queue run as RUN or FALLBACK tee asks its own handler
\* about the errors of its steps, and the handler of the main queue is asked
\* only about the error the run returns, which is never one the handler of
\* the queue swallowed.
C38_Original ==
    (last.op \in {"Run", "Fallback"} /\ ~last.crash)
        => \A m, n \in 1..Len(last.evs) :
              SubRun(m, n)
                  => /\ OwnHandler(m, n)
                     /\ ParentAsked(m, n)
                     /\ ~SwallowedInside(m, n)

\* C38: a queue run as RUN or FALLBACK tee asks its own handler (STOP under
\* RUN and IGNORE under FALLBACK if it has none), and never the handler of
\* the main queue, about the errors of its steps; the handler of the main
\* queue is asked only about the error the run returns. That is an error the
\* handler of the queue swallowed only for a queue run by FALLBACK whose last
\* step gave it: Fallback returns the error of the last step also when the
\* handler swallowed it.
C38_OwnHandler ==
    (last.op \in {"Run", "Fallback"} /\ ~last.crash)
        => \A m, n \in 1..Len(last.evs) :
              SubRun(m, n)
                  => /\ OwnHandler(m, n)
                     /\ ParentAsked(m, n)
                     /\ SwallowedInside(m, n)
                           => /\ Tees(last.evs[m].at)[last.evs[m].pos + 1]
                                    .function.beh = "FALLBACK"
                              /\ SwallowedAtLast(m, n)

\* the main queue swallows errors, the queue run as its tee stops at them:
\* the first step of the queue gave an error, its handler returned it, the
\* second step was not called and the handler of the main queue was asked
\* about that error
C38_Witness ==
    /\ last.op = "Run"
    /\ queues[Main].errHandler = IGNORE
    /\ queues[Sub].errHandler = STOP
    /\ Len(queues[Sub].functions) = 2
    /\ \E m, n \in 1..Len(last.evs) :
          /\ SubRun(m, n)
          /\ n = m + 3
          /\ last.evs[m + 2].ev = "handle"
          /\ last.evs[m + 2].out # NIL
          /\ Len(last.evs) > n
          /\ last.evs[n + 1].ev = "handle"
          /\ last.evs[n + 1].err = last.evs[m + 2].out
          /\ last.evs[n + 1].out = NIL

\* the goroutine t has called the queue Sub as a tee
Called_Sub(t) ==
    /\ threads[t].kind \in {"RUN", "FALLBACK"}
    /\ threads[t].pc \in {"clear", "clearing", "done"}

\* C39: a queue that is the tee or feed of queues run by two goroutines is
\* not safe. As long as no other goroutine is at work on it, a queue run as
\* tee starts from the values of the position that called it: its first
\* step gets them for PIPE. With two goroutines there are interleavings in
\* which it starts from the values the other goroutine wrote, or from the
\* empty set of the other's reset.
C39_SerialStarts ==
    \A t \in Threads :
        Called_Sub(t)
            => (threads[t].serial
                  => /\ threads[t].got = threads[t].vals
                     /\ Len(queues[Sub].functions) > 0
                           => Substituted(
                                 threads[t].args,
                                 queues[Sub].functions[1].arguments,
                                 threads[t].vals))

\* two goroutines ran the queue as tee of positions with different values:
\* one started it from the values of the other, and the other from the empty
\* set the reset of the first had written
C39_Witness ==
    /\ Called_Sub(T1)
    /\ Called_Sub(T2)
    /\ threads[T1].vals # threads[T2].vals
    /\ threads[T1].got = threads[T2].vals
    /\ threads[T2].got = <<>>
    /\ Len(queues[Sub].functions) > 0
    /\ threads[T1].args = threads[T2].vals
    /\ threads[T2].args = <<>>

====
